---------------------------- MODULE Spec2Model ----------------------------
(***************************************************************************)
(* Verification model of the kitchen-management backend (backend/app).     *)
(*                                                                         *)
(* The module holds one state machine per subsystem, each with its own     *)
(* specification over the shared variables:                                *)
(*   SpecWS    - real-time gateway and NotificationService registry        *)
(*   SpecCache - CacheService (rate limiting, fail-open policy)            *)
(*   SpecRate  - CacheService.check_rate_limit with a reachable cache      *)
(*   SpecInv   - inventory endpoints                                       *)
(*   SpecHouse - household membership: register, create, invite, join,    *)
(*               leave                                                     *)
(*   SpecReg   - registration                                              *)
(*   SpecAuth  - login, logout, refresh and current-user resolution        *)
(*   SpecAudit - AuditService.log_action and its redaction pass            *)
(*   SpecMeal  - meal-plan endpoints and plan entries                      *)
(*   SpecRecipe, SpecRecipeEdit - recipe endpoints: visibility, children   *)
(*   SpecReview - add_recipe_review with overlapping transactions          *)
(*   SpecForecast - InventoryService heuristic waste forecast              *)
(*   SpecGate  - the gateway's token check before registration             *)
(*   SpecOwn   - create_household run by overlapping requests              *)
(*   SpecAI    - AI endpoints and the premium gate                         *)
(*   SpecCleanup - NotificationService.cleanup and the push-token registry *)
(*   SpecLife  - application startup and shutdown (main.lifespan)          *)
(*   SpecConnect - CacheService.connect under concurrent callers           *)
(*   SpecJoin  - household membership without invitations                  *)
(*   SpecLeave - the gateway while members leave their household           *)
(*                                                                         *)
(* Handlers are modelled statement by statement.  Names that a module uses *)
(* without importing them (select / HTTPException in websocket.py, Dict /  *)
(* Any / List in users.py) are read as the library symbols of that name,   *)
(* and ORM relationship attributes (owned_household) as the query they     *)
(* stand for.  Coroutines are split at their await points where another    *)
(* task can observe or change the state they work on (household            *)
(* broadcast); request handlers run against their own transaction and are  *)
(* one action each, except add_recipe_review, which is split at its        *)
(* statements so that two requests can overlap.  Where a handler or a      *)
(* response schema names a column differently from the ORM class           *)
(* (meal_plan_id, review_count, avg_rating, Recipe.household_id) the       *)
(* model follows the handler.                                              *)
(***************************************************************************)
EXTENDS Integers, Sequences, FiniteSets, TLC

\* ------------------------------------------------------------------ bounds
MaxUsers == 3
MaxHouseholds == 3
MaxSockets == 3
MaxMsgs == 1
MaxKeys == 2
MaxRequests == 2
MaxWindow == 2
MaxTime == 4
MaxCalls == 3
MaxItems == 2
MaxQty == 2
MaxLogs == 2
MaxNames == 2
MaxSessions == 2
MaxTokens == 4
MaxDays == 8
MaxPlans == 1
MaxEntries == 2
MaxDate == 2
MaxRecipes == 2
MaxChildNames == 1
MaxChildren == 2
MaxReviews == 2
MaxTx == 2
MaxPantry == 2
MaxGateSockets == 2
MaxPushTokens == 1
MaxCallers == 3
MaxClients == 3

None == 0
UserIds == 1..MaxUsers
HouseholdIds == 1..MaxHouseholds
Sockets == 1..MaxSockets

\* --------------------------------------------------------------- variables
VARIABLES
  users,               \* table users: id -> row
  households,          \* table households: id -> row
  sessions,            \* table user_sessions, in insertion order
  tokens,              \* the signed tokens the server has handed to clients
  today,               \* the wall clock, in days
  sock,                \* WebSocket objects: attributes set by the endpoint
  active_connections,  \* NotificationService.active_connections
  bcast,               \* position of each running send_household_update
  last_sent,           \* the envelope the last step handed to send_json
  nmsg,                \* number of client messages received so far
  redis_client,        \* CacheService.redis_client
  store,               \* the cache server's keys: value and expiry
  now,                 \* the clock, in seconds
  max_requests,        \* the limit the caller passes to check_rate_limit
  window_seconds,      \* the window the caller passes to check_rate_limit
  calls,               \* per key: the window of the last call and the calls in it
  cache_out,           \* what the last cache operation gave its caller
  items,               \* table inventory_items: id -> row
  logs,                \* table consumption_logs
  inv_out,             \* the last inventory request and its response
  acct_out,            \* the last account request and its response
  audit_logs,          \* table audit_logs, in insertion order
  audit_out,           \* the last log_action call and how it ended
  meal_plans,          \* table meal_plans: id -> row
  meal_entries,        \* table meal_plan_entries
  meal_out,            \* the last meal-plan request and its response
  recipes,             \* table recipes: id -> row, children included
  recipe_reviews,      \* table recipe_reviews
  review_tx,           \* the add-review requests under way
  recipe_out,          \* the last recipe request and its response
  pantry,              \* the inventory_items rows the inventory service reads
  forecast_out,        \* the last forecast the inventory service returned
  ws_out,              \* the last socket opened with a token and how it ended
  household_tx,        \* the create-household requests under way
  is_premium,          \* column users.is_premium: id -> flag
  ai_out,              \* the last AI or premium-gated request and its response
  push_tokens,         \* NotificationService.push_tokens
  cleanup_run,         \* position of NotificationService.cleanup
  lifespan_run,        \* position of main.lifespan, the engine and the AI service
  lock,                \* CacheService._lock: the connect call holding it
  connect_pc,          \* position of each caller's CacheService.connect
  clients              \* cache clients constructed and dropped so far

authVars == <<sessions, tokens, today>>
acctVars == <<users, households, authVars, acct_out>>
wsVars == <<sock, active_connections, bcast, last_sent, nmsg>>
cacheVars == <<redis_client, store, now, max_requests, window_seconds,
               calls, cache_out>>
invVars == <<items, logs, inv_out>>
auditVars == <<audit_logs, audit_out>>
mealVars == <<meal_plans, meal_entries, meal_out>>
recipeVars == <<recipes, recipe_reviews, review_tx, recipe_out>>
forecastVars == <<pantry, forecast_out>>
gateVars == <<ws_out>>
earlyVars == <<auditVars, mealVars, recipeVars, forecastVars, gateVars>>
\* ---- the variable groups of the subsystems below the gateway
ownVars == <<household_tx>>
aiVars == <<is_premium, ai_out>>
cleanupVars == <<push_tokens, cleanup_run>>
lifeVars == <<lifespan_run>>
connVars == <<lock, connect_pc, clients>>
lateVars == <<ownVars, aiVars, cleanupVars, lifeVars, connVars>>
nonOwnVars == <<earlyVars, aiVars, cleanupVars, lifeVars, connVars>>
nonAiVars == <<earlyVars, ownVars, cleanupVars, lifeVars, connVars>>
nonCleanupVars == <<earlyVars, ownVars, aiVars, lifeVars, connVars>>
nonLifeVars == <<earlyVars, ownVars, aiVars, cleanupVars, connVars>>
nonConnVars == <<earlyVars, ownVars, aiVars, cleanupVars, lifeVars>>
restVars == <<earlyVars, lateVars>>
vars == <<users, households, sessions, tokens, today, sock, active_connections, bcast,
          last_sent, nmsg, redis_client, store, now, max_requests,
          window_seconds, calls, cache_out, items, logs, inv_out, acct_out,
          audit_logs, audit_out, meal_plans, meal_entries, meal_out, recipes,
          recipe_reviews, review_tx, recipe_out, pantry, forecast_out,
          ws_out, lateVars>>
nonWsVars == <<acctVars, cacheVars, invVars, restVars>>
nonCacheVars == <<acctVars, wsVars, invVars, restVars>>
nonInvVars == <<acctVars, wsVars, cacheVars, restVars>>
nonAcctVars == <<wsVars, cacheVars, invVars, restVars>>
coreVars == <<acctVars, wsVars, cacheVars, invVars>>
nonAuditVars == <<coreVars, mealVars, recipeVars, forecastVars, gateVars,
                  lateVars>>
nonMealVars == <<coreVars, auditVars, recipeVars, forecastVars, gateVars,
                  lateVars>>
nonRecipeVars == <<coreVars, auditVars, mealVars, forecastVars, gateVars,
                  lateVars>>
nonForecastVars == <<coreVars, auditVars, mealVars, recipeVars, gateVars,
                  lateVars>>
nonGateVars == <<acctVars, cacheVars, invVars, auditVars, mealVars,
                 recipeVars, forecastVars, lateVars>>

\* ------------------------------------------------------- table row shapes
NoUser == [exists |-> FALSE, username |-> None, email |-> None,
           password |-> None, household_id |-> None, is_active |-> FALSE]
\* a household name: the text before and after a formatted-in username
NoName == [username |-> None, text |-> ""]
NoHousehold == [exists |-> FALSE, name |-> NoName, owner_id |-> None]

\* ================================================================
\* Request outcome shared by the HTTP handlers
\* ================================================================
\* Depends(AuditService) builds the service from its defaults: no session
AuditSession == None

\* AuditService.log_action: without a session it raises, and the request
\* that has already committed answers 500
AfterAudit(status) == IF AuditSession = None THEN 500 ELSE status

\* ================================================================
\* Users and households
\* ================================================================
\* str(uuid) of a user id and of a household id; no underscore occurs in them
StrUser(u) == <<"user", u>>
StrHousehold(h) == <<"household", h>>
\* any other text without an underscore
Word(w) == <<w, 0>>

\* a bearer token: the claims and whether the signature verifies
NoToken == [kind |-> "none", signed |-> FALSE, sub |-> Word("none"),
            username |-> None, exp |-> 0]

NoAcctOut == [op |-> "", status |-> 0, caller |-> None, user |-> None,
              household |-> None, token |-> <<>>, changed |-> FALSE,
              pre_owner |-> FALSE, pre_household |-> None, matches |-> 0,
              bearer |-> NoToken, pre_active |-> FALSE]

\* uuid.UUID(text) succeeds
IsUuid(chunk) == chunk[1] \in {"user", "household"}

\* select(Household).where(Household.id == UUID(text))
HouseholdOf(chunk) ==
  IF \E h \in HouseholdIds : chunk = StrHousehold(h) /\ households[h].exists
  THEN CHOOSE h \in HouseholdIds : chunk = StrHousehold(h)
  ELSE None

\* User.owned_household: the households whose owner_id is the user
OwnedHouseholds(u) ==
  {h \in HouseholdIds : households[h].exists /\ households[h].owner_id = u}

Caller(u) == users[u].exists /\ users[u].is_active

FreshUser == CHOOSE u \in UserIds :
               ~users[u].exists /\ \A v \in UserIds : v < u => users[v].exists
FreshHousehold ==
  CHOOSE h \in HouseholdIds :
    ~households[h].exists /\ \A g \in HouseholdIds : g < h => households[g].exists

\* register, line 119
DefaultHouseholdName(username) ==
  [username |-> username, text |-> "'s Household"]

\* register, lines 90-94: the rows the duplicate check selects
RegisterMatches(username, email) ==
  {u \in UserIds : users[u].exists /\
                    (users[u].username = username \/ users[u].email = email)}

\* register; household_id = None: the request names no household
Register(username, email, household_id) ==
  LET matches == RegisterMatches(username, email)
      out == [NoAcctOut EXCEPT !.op = "register",
                !.matches = Cardinality(matches),
                !.pre_household = household_id]
  IN
  /\ IF Cardinality(matches) = 1
     THEN /\ acct_out' = [out EXCEPT !.status = 400]
          /\ UNCHANGED <<users, households>>
     ELSE IF Cardinality(matches) > 1
     THEN \* scalar_one_or_none raises MultipleResultsFound
          /\ acct_out' = [out EXCEPT !.status = 500]
          /\ UNCHANGED <<users, households>>
     ELSE IF household_id # None
     THEN /\ \E u \in UserIds : ~users[u].exists
          /\ IF households[household_id].exists
             THEN /\ users' = [users EXCEPT ![FreshUser] =
                                 [exists |-> TRUE, username |-> username,
                                  email |-> email, password |-> 1,
                                  household_id |-> household_id,
                                  is_active |-> TRUE]]
                  /\ acct_out' = [out EXCEPT !.status = AfterAudit(201),
                                    !.user = FreshUser,
                                    !.changed = (users' # users)]
             ELSE \* users.household_id references households.id
                  /\ acct_out' = [out EXCEPT !.status = 500]
                  /\ UNCHANGED users
          /\ UNCHANGED households
     ELSE /\ \E u \in UserIds : ~users[u].exists
          /\ \E h \in HouseholdIds : ~households[h].exists
          /\ users' = [users EXCEPT ![FreshUser] =
                         [exists |-> TRUE, username |-> username,
                          email |-> email, password |-> 1,
                          household_id |-> FreshHousehold,
                          is_active |-> TRUE]]
          /\ households' = [households EXCEPT ![FreshHousehold] =
                              [exists |-> TRUE,
                               name |-> DefaultHouseholdName(username),
                               owner_id |-> FreshUser]]
          /\ acct_out' = [out EXCEPT !.status = AfterAudit(201),
                            !.user = FreshUser, !.household = FreshHousehold,
                            !.changed = (users' # users \/
                                         households' # households)]
  /\ UNCHANGED authVars
  /\ UNCHANGED nonAcctVars

\* create_household
CreateHousehold(u, name) ==
  /\ Caller(u)
  /\ LET out == [NoAcctOut EXCEPT !.op = "create_household", !.caller = u,
                   !.pre_owner = (OwnedHouseholds(u) # {}),
                   !.pre_household = users[u].household_id]
     IN IF OwnedHouseholds(u) # {}
        THEN /\ acct_out' = [out EXCEPT !.status = 400]
             /\ UNCHANGED <<users, households>>
        ELSE /\ \E h \in HouseholdIds : ~households[h].exists
             /\ households' = [households EXCEPT ![FreshHousehold] =
                                 [exists |-> TRUE, name |-> name,
                                  owner_id |-> u]]
             /\ users' = [users EXCEPT ![u].household_id = FreshHousehold]
             /\ acct_out' = [out EXCEPT !.status = AfterAudit(200),
                               !.household = FreshHousehold,
                               !.changed = (users' # users \/
                                            households' # households)]
  /\ UNCHANGED authVars
  /\ UNCHANGED nonAcctVars

\* invite_to_household: the token is composed, nothing is stored
InviteToHousehold(u, email) ==
  /\ Caller(u)
  /\ LET out == [NoAcctOut EXCEPT !.op = "invite", !.caller = u,
                   !.pre_owner = (OwnedHouseholds(u) # {}),
                   !.pre_household = users[u].household_id]
         invited == {v \in UserIds : users[v].exists /\ users[v].email = email}
     IN acct_out' =
          IF users[u].household_id = None THEN [out EXCEPT !.status = 404]
          ELSE IF OwnedHouseholds(u) = {} THEN [out EXCEPT !.status = 403]
          ELSE IF Cardinality(invited) > 1 THEN [out EXCEPT !.status = 500]
          ELSE IF invited = {} THEN [out EXCEPT !.status = 404]
          ELSE LET v == CHOOSE v \in invited : TRUE
               IN IF users[v].household_id # None
                  THEN [out EXCEPT !.status = 400, !.user = v]
                  ELSE [out EXCEPT !.status = AfterAudit(200), !.user = v,
                          !.household = users[u].household_id,
                          !.token = <<Word("invite"),
                                      StrHousehold(users[u].household_id),
                                      StrUser(v)>>]
  /\ UNCHANGED <<users, households, authVars>>
  /\ UNCHANGED nonAcctVars

\* join_household, line 320
JoinTokenOk(u, parts) == StrUser(u) = parts[3]

\* join_household; parts = invitation_token.split("_")
JoinHousehold(u, parts) ==
  /\ Caller(u)
  /\ LET out == [NoAcctOut EXCEPT !.op = "join", !.caller = u,
                   !.token = parts,
                   !.pre_owner = (OwnedHouseholds(u) # {}),
                   !.pre_household = users[u].household_id]
     IN IF Len(parts) # 3 \/ parts[1] # Word("invite")
        THEN /\ acct_out' = [out EXCEPT !.status = 400]
             /\ UNCHANGED users
        ELSE IF ~JoinTokenOk(u, parts)
        THEN /\ acct_out' = [out EXCEPT !.status = 403]
             /\ UNCHANGED users
        ELSE IF users[u].household_id # None
        THEN /\ acct_out' = [out EXCEPT !.status = 400]
             /\ UNCHANGED users
        ELSE IF ~IsUuid(parts[2])
        THEN \* UUID(household_id) raises ValueError outside the try block
             /\ acct_out' = [out EXCEPT !.status = 500]
             /\ UNCHANGED users
        ELSE IF HouseholdOf(parts[2]) = None
        THEN /\ acct_out' = [out EXCEPT !.status = 404]
             /\ UNCHANGED users
        ELSE /\ users' = [users EXCEPT
                            ![u].household_id = HouseholdOf(parts[2])]
             /\ acct_out' = [out EXCEPT !.status = AfterAudit(200),
                               !.household = HouseholdOf(parts[2]),
                               !.changed = (users' # users)]
  /\ UNCHANGED <<households, authVars>>
  /\ UNCHANGED nonAcctVars

\* variant of MayLeave: the owner check is missing
MayLeaveAnyone(u) == TRUE

\* leave_household, line 386
MayLeave(u) == OwnedHouseholds(u) = {}

\* leave_household
LeaveHousehold(u) ==
  /\ Caller(u)
  /\ LET out == [NoAcctOut EXCEPT !.op = "leave", !.caller = u,
                   !.pre_owner = (OwnedHouseholds(u) # {}),
                   !.pre_household = users[u].household_id]
     IN IF users[u].household_id = None
        THEN /\ acct_out' = [out EXCEPT !.status = 404]
             /\ UNCHANGED users
        ELSE IF ~MayLeave(u)
        THEN /\ acct_out' = [out EXCEPT !.status = 400]
             /\ UNCHANGED users
        ELSE /\ users' = [users EXCEPT ![u].household_id = None]
             /\ acct_out' = [out EXCEPT !.status = AfterAudit(200),
                               !.changed = (users' # users)]
  /\ UNCHANGED <<households, authVars>>
  /\ UNCHANGED nonAcctVars

\* ================================================================
\* Authentication: login, logout, refresh, current-user resolution
\* ================================================================
\* settings.JWT_EXPIRATION_MINUTES, in days
AccessLifetimeDays == 7
\* settings.JWT_REFRESH_EXPIRATION_DAYS
RefreshLifetimeDays == 30

\* create_access_token(data={"sub": str(user.id), "username": ...}, ...)
CreateAccessToken(u, lifetime) ==
  [kind |-> "access", signed |-> TRUE, sub |-> StrUser(u),
   username |-> users[u].username, exp |-> today + lifetime]

\* create_refresh_token(data={"sub": str(user.id)}, ...)
CreateRefreshToken(u, lifetime) ==
  [kind |-> "refresh", signed |-> TRUE, sub |-> StrUser(u),
   username |-> None, exp |-> today + lifetime]

\* hashlib.sha256(token.encode()).hexdigest(): one digest per token
Sha256(token) == [sha256 |-> token]

\* jwt.decode: the signature verifies and the exp claim has not passed
JwtDecodes(token) == token.signed /\ ~(token.exp < today)

\* uuid.UUID(text) of a user's identifier
UuidOfUser(chunk) == chunk[2]

\* variant of IsActiveUser: the active flag is not part of the query
IsActiveUserAny(u) == users[u].exists

\* select(User).where(User.id == ..., User.is_active == True)
IsActiveUser(u) == users[u].exists /\ users[u].is_active

\* get_current_user: the resolved user, None for a 401 answer
CurrentUser(token) ==
  IF ~JwtDecodes(token) THEN None
  ELSE IF token.sub = Word("none") THEN None
  ELSE IF IsActiveUser(UuidOfUser(token.sub)) THEN UuidOfUser(token.sub)
  ELSE None

\* what the request's subject looked like before the request ran
SubjectActive(token) ==
  /\ token.sub # Word("none")
  /\ users[UuidOfUser(token.sub)].exists
  /\ users[UuidOfUser(token.sub)].is_active

AuthOut(op, token) ==
  [NoAcctOut EXCEPT !.op = op, !.bearer = token,
     !.caller = CurrentUser(token),
     !.pre_active = SubjectActive(token)]

\* what a client can put in the Authorization header
Presentable ==
  tokens \cup {[t EXCEPT !.signed = FALSE] : t \in tokens} \cup {NoToken}

\* authenticate_user: username and email are disjoint sets of strings
\* (a registered username has no "@"), so the login name selects by one
LoginMatches(by, name) ==
  {u \in UserIds : /\ IsActiveUser(u)
                    /\ IF by = "username" THEN users[u].username = name
                                         ELSE users[u].email = name}

\* the account a login name belongs to, active or not
LoginTarget(by, name) ==
  LET owners == {u \in UserIds :
                   /\ users[u].exists
                   /\ IF by = "username" THEN users[u].username = name
                                        ELSE users[u].email = name}
  IN IF owners = {} THEN None ELSE CHOOSE u \in owners : TRUE

\* login
Login(by, name, password) ==
  LET matches == LoginMatches(by, name)
      target == LoginTarget(by, name)
      out == [NoAcctOut EXCEPT !.op = "login", !.user = target,
                !.matches = Cardinality(matches),
                !.pre_active = (target # None /\ users[target].is_active)]
  IN
  /\ IF Cardinality(matches) > 1
     THEN /\ acct_out' = [out EXCEPT !.status = 500]
          /\ UNCHANGED <<sessions, tokens>>
     ELSE IF matches = {}
     THEN /\ acct_out' = [out EXCEPT !.status = 401]
          /\ UNCHANGED <<sessions, tokens>>
     ELSE LET u == CHOOSE u \in matches : TRUE
              access == CreateAccessToken(u, AccessLifetimeDays)
              refresh == CreateRefreshToken(u, RefreshLifetimeDays)
          IN IF users[u].password # password
             THEN /\ acct_out' = [out EXCEPT !.status = 401]
                  /\ UNCHANGED <<sessions, tokens>>
             ELSE /\ Len(sessions) < MaxSessions
                  /\ Cardinality(tokens \cup {access, refresh}) <= MaxTokens
                  /\ sessions' = Append(sessions,
                                    [user_id |-> u,
                                     token_hash |-> Sha256(access),
                                     expires_at |-> today + AccessLifetimeDays])
                  /\ tokens' = tokens \cup {access, refresh}
                  /\ acct_out' = [out EXCEPT !.status = 200, !.caller = u,
                                    !.bearer = access,
                                    !.changed = (sessions' # sessions)]
  /\ UNCHANGED <<users, households, today>>
  /\ UNCHANGED nonAcctVars

\* delete(UserSession).where(UserSession.token_hash == token_hash)
DeleteSessions(rows, token_hash) ==
  SelectSeq(rows, LAMBDA r : r.token_hash # token_hash)

\* logout
Logout(token) ==
  /\ IF CurrentUser(token) = None
     THEN /\ acct_out' = [AuthOut("logout", token) EXCEPT !.status = 401]
          /\ UNCHANGED sessions
     ELSE /\ sessions' = DeleteSessions(sessions, Sha256(token))
          /\ acct_out' = [AuthOut("logout", token) EXCEPT !.status = 200,
                            !.changed = (sessions' # sessions)]
  /\ UNCHANGED <<users, households, tokens, today>>
  /\ UNCHANGED nonAcctVars

\* refresh_token: any token that decodes is accepted, the same refresh token
\* is echoed back
RefreshToken(token) ==
  LET out == AuthOut("refresh", token)
  IN
  /\ IF CurrentUser(token) = None
     THEN /\ acct_out' = [out EXCEPT !.status = 401]
          /\ UNCHANGED tokens
     ELSE LET access == CreateAccessToken(CurrentUser(token),
                                          AccessLifetimeDays)
          IN /\ Cardinality(tokens \cup {access}) <= MaxTokens
             /\ tokens' = tokens \cup {access}
             /\ acct_out' = [out EXCEPT !.status = 200,
                               !.changed = (tokens' # tokens)]
  /\ UNCHANGED <<users, households, sessions, today>>
  /\ UNCHANGED nonAcctVars

\* get_current_user_info: an endpoint that only reads
GetCurrentUserInfo(token) ==
  /\ acct_out' = [AuthOut("me", token) EXCEPT
                    !.status = IF CurrentUser(token) = None THEN 401 ELSE 200,
                    !.user = CurrentUser(token)]
  /\ UNCHANGED <<users, households, authVars>>
  /\ UNCHANGED nonAcctVars

\* update_current_user with a body that sets is_active
UpdateCurrentUser(token, is_active) ==
  LET out == AuthOut("update_me", token)
  IN
  /\ IF CurrentUser(token) = None
     THEN /\ acct_out' = [out EXCEPT !.status = 401]
          /\ UNCHANGED users
     ELSE /\ users' = [users EXCEPT ![CurrentUser(token)].is_active = is_active]
          /\ acct_out' = [out EXCEPT !.status = AfterAudit(200),
                            !.user = CurrentUser(token),
                            !.changed = (users' # users)]
  /\ UNCHANGED <<households, authVars>>
  /\ UNCHANGED nonAcctVars

\* more than an access token's lifetime passes
Days ==
  /\ today + AccessLifetimeDays + 1 <= MaxDays
  /\ today' = today + AccessLifetimeDays + 1
  /\ acct_out' = NoAcctOut
  /\ UNCHANGED <<users, households, sessions, tokens>>
  /\ UNCHANGED nonAcctVars

\* ================================================================
\* Inventory endpoints
\* ================================================================
ItemIds == 1..MaxItems
LogIds == 1..MaxLogs
Unset == -1
NoItem == [exists |-> FALSE, used |-> FALSE, household_id |-> None,
           quantity |-> 0]
GoneItem == [exists |-> FALSE, used |-> TRUE, household_id |-> None,
             quantity |-> 0]
NoInvOut == [op |-> "", status |-> 0, item_id |-> None, found |-> FALSE,
             before |-> 0, used |-> 0]

\* select(InventoryItem).where(id == item_id, household_id == caller's)
FindItem(u, item_id) ==
  items[item_id].exists /\ items[item_id].household_id = users[u].household_id

\* identifiers are uuid4 values: never handed out twice
FreshItem == CHOOSE i \in ItemIds :
               ~items[i].used /\ \A j \in ItemIds : j < i => items[j].used
FreshLog == CHOOSE i \in LogIds : \A l \in logs : l.id # i

\* consumption_logs.item_id references inventory_items.id
ForeignKeysHold(its, lgs) == \A l \in lgs : its[l.item_id].exists

\* InventoryItem.consumption_logs, cascade "all, delete-orphan": the rows
\* that are deleted with the item
CascadeLogs(item_id) == {l \in logs : l.item_id = item_id}

\* create_inventory_item
CreateItem(u, quantity) ==
  /\ Caller(u) /\ users[u].household_id # None
  /\ \E i \in ItemIds : ~items[i].used
  /\ LET i == FreshItem IN
     /\ items' = [items EXCEPT ![i] =
                    [exists |-> TRUE, used |-> TRUE,
                     household_id |-> users[u].household_id,
                     quantity |-> quantity]]
     /\ inv_out' = [NoInvOut EXCEPT !.op = "create", !.item_id = i,
                      !.status = AfterAudit(201)]
  /\ UNCHANGED logs
  /\ UNCHANGED nonInvVars

\* get_inventory_item
GetItem(u, item_id) ==
  /\ Caller(u)
  /\ inv_out' = [NoInvOut EXCEPT !.op = "get", !.item_id = item_id,
                   !.found = FindItem(u, item_id),
                   !.status = IF FindItem(u, item_id) THEN 200 ELSE 404]
  /\ UNCHANGED <<items, logs>>
  /\ UNCHANGED nonInvVars

\* update_inventory_item; quantity = Unset: the field is not in the request
UpdateItem(u, item_id, quantity) ==
  /\ Caller(u)
  /\ IF ~FindItem(u, item_id)
     THEN /\ inv_out' = [NoInvOut EXCEPT !.op = "update",
                           !.item_id = item_id, !.status = 404]
          /\ UNCHANGED items
     ELSE /\ items' = IF quantity = Unset THEN items
                      ELSE [items EXCEPT ![item_id].quantity = quantity]
          /\ inv_out' = [NoInvOut EXCEPT !.op = "update",
                           !.item_id = item_id, !.found = TRUE,
                           !.before = items[item_id].quantity,
                           !.status = AfterAudit(200)]
  /\ UNCHANGED logs
  /\ UNCHANGED nonInvVars

\* delete_inventory_item
DeleteItem(u, item_id) ==
  /\ Caller(u)
  /\ IF ~FindItem(u, item_id)
     THEN /\ inv_out' = [NoInvOut EXCEPT !.op = "delete",
                           !.item_id = item_id, !.status = 404]
          /\ UNCHANGED <<items, logs>>
     ELSE LET its == [items EXCEPT ![item_id] = GoneItem]
              lgs == logs \ CascadeLogs(item_id)
          IN IF ForeignKeysHold(its, lgs)
             THEN /\ items' = its
                  /\ logs' = lgs
                  /\ inv_out' = [NoInvOut EXCEPT !.op = "delete",
                                   !.item_id = item_id, !.found = TRUE,
                                   !.before = items[item_id].quantity,
                                   !.status = AfterAudit(204)]
             ELSE /\ UNCHANGED <<items, logs>>
                  /\ inv_out' = [NoInvOut EXCEPT !.op = "delete",
                                   !.item_id = item_id, !.found = TRUE,
                                   !.before = items[item_id].quantity,
                                   !.status = 500]
  /\ UNCHANGED nonInvVars

\* log_consumption: the new log row, the new quantity and, at zero or below,
\* the delete of the item go to the database in one commit
LogConsumption(u, item_id, quantity_used) ==
  /\ Caller(u)
  /\ IF ~FindItem(u, item_id)
     THEN /\ inv_out' = [NoInvOut EXCEPT !.op = "consume",
                           !.item_id = item_id, !.status = 404]
          /\ UNCHANGED <<items, logs>>
     ELSE /\ \E i \in LogIds : \A l \in logs : l.id # i
          /\ LET log == [id |-> FreshLog, item_id |-> item_id, user_id |-> u,
                         quantity_used |-> quantity_used]
                 quantity == items[item_id].quantity - quantity_used
                 its == IF quantity <= 0
                        THEN [items EXCEPT ![item_id] = GoneItem]
                        ELSE [items EXCEPT ![item_id].quantity = quantity]
                 lgs == IF quantity <= 0
                        THEN (logs \ CascadeLogs(item_id)) \cup {log}
                        ELSE logs \cup {log}
                 out == [NoInvOut EXCEPT !.op = "consume",
                           !.item_id = item_id, !.found = TRUE,
                           !.before = items[item_id].quantity,
                           !.used = quantity_used]
             IN IF ForeignKeysHold(its, lgs)
                THEN /\ items' = its
                     /\ logs' = lgs
                     /\ inv_out' = [out EXCEPT !.status = AfterAudit(200)]
                ELSE \* IntegrityError at commit: get_db rolls back
                     /\ UNCHANGED <<items, logs>>
                     /\ inv_out' = [out EXCEPT !.status = 500]
  /\ UNCHANGED nonInvVars

\* ================================================================
\* Meal-plan endpoints
\* ================================================================
PlanIds == 1..MaxPlans
EntryIds == 1..MaxEntries
Dates == 1..MaxDate
NoPlan == [exists |-> FALSE, used |-> FALSE, household_id |-> None,
           created_by |-> None, start_date |-> 0, end_date |-> 0]
GonePlan == [NoPlan EXCEPT !.used = TRUE]
NoMealOut == [op |-> "", status |-> 0, caller |-> None, plan_id |-> None,
              inverted |-> FALSE, entries |-> {},
              creator |-> FALSE, member |-> FALSE, changed |-> FALSE]

FreshPlan == CHOOSE p \in PlanIds :
               ~meal_plans[p].used /\ \A q \in PlanIds : q < p => meal_plans[q].used
FreshEntry == CHOOSE e \in EntryIds : \A row \in meal_entries : row.id # e

\* MealPlan.created_by == current_user.id
IsPlanCreator(u, meal_plan_id) ==
  meal_plans[meal_plan_id].exists /\ meal_plans[meal_plan_id].created_by = u

\* MealPlan.household_id == current_user.household_id
IsPlanMember(u, meal_plan_id) ==
  /\ meal_plans[meal_plan_id].exists
  /\ users[u].household_id # None
  /\ meal_plans[meal_plan_id].household_id = users[u].household_id

\* select(MealPlan).where(id == meal_plan_id, or_(created_by, household_id))
FindPlan(u, meal_plan_id) ==
  IsPlanCreator(u, meal_plan_id) \/ IsPlanMember(u, meal_plan_id)

\* the entries of one plan
EntriesOf(meal_plan_id) == {row \in meal_entries : row.meal_plan_id = meal_plan_id}

\* what a meal-plan request records of its caller and of the state it met
MealOut(op, u, meal_plan_id) ==
  [NoMealOut EXCEPT !.op = op, !.caller = u, !.plan_id = meal_plan_id,
     !.creator = IsPlanCreator(u, meal_plan_id),
     !.member = IsPlanMember(u, meal_plan_id)]

\* create_meal_plan; entries: how many entries the request carries
CreateMealPlan(u, start_date, end_date, entries) ==
  /\ Caller(u)
  /\ IF start_date > end_date
     THEN /\ meal_out' = [NoMealOut EXCEPT !.op = "create", !.caller = u,
                            !.inverted = TRUE, !.status = 400]
          /\ UNCHANGED <<meal_plans, meal_entries>>
     ELSE IF users[u].household_id = None
     THEN \* meal_plans.household_id is NOT NULL: the flush fails
          /\ meal_out' = [NoMealOut EXCEPT !.op = "create", !.caller = u,
                            !.status = 500]
          /\ UNCHANGED <<meal_plans, meal_entries>>
     ELSE /\ \E p \in PlanIds : ~meal_plans[p].used
          /\ entries = 0 \/ \E e \in EntryIds : \A row \in meal_entries : row.id # e
          /\ LET p == FreshPlan IN
             /\ meal_plans' = [meal_plans EXCEPT ![p] =
                                 [exists |-> TRUE, used |-> TRUE,
                                  household_id |-> users[u].household_id,
                                  created_by |-> u,
                                  start_date |-> start_date,
                                  end_date |-> end_date]]
             /\ meal_entries' = IF entries = 0 THEN meal_entries
                                ELSE meal_entries \cup
                                       {[id |-> FreshEntry, meal_plan_id |-> p]}
             /\ meal_out' = [NoMealOut EXCEPT !.op = "create", !.caller = u,
                               !.plan_id = p,
                               !.changed = TRUE, !.status = AfterAudit(201)]
  /\ UNCHANGED nonMealVars

\* update_meal_plan; Unset: the field is not in the request
UpdateMealPlan(u, meal_plan_id, start_date, end_date) ==
  /\ Caller(u)
  /\ IF ~IsPlanCreator(u, meal_plan_id)
     THEN /\ meal_out' = [MealOut("update", u, meal_plan_id) EXCEPT
                            !.status = 404]
          /\ UNCHANGED meal_plans
     ELSE /\ meal_plans' =
               [meal_plans EXCEPT ![meal_plan_id] =
                  [@ EXCEPT
                     !.start_date = IF start_date = Unset THEN @ ELSE start_date,
                     !.end_date = IF end_date = Unset THEN @ ELSE end_date]]
          /\ meal_out' = [MealOut("update", u, meal_plan_id) EXCEPT
                            !.changed = meal_plans' # meal_plans,
                            !.status = AfterAudit(200)]
  /\ UNCHANGED meal_entries
  /\ UNCHANGED nonMealVars

\* delete_meal_plan; MealPlan.entries cascades "all, delete-orphan"
DeleteMealPlan(u, meal_plan_id) ==
  /\ Caller(u)
  /\ IF ~IsPlanCreator(u, meal_plan_id)
     THEN /\ meal_out' = [MealOut("delete", u, meal_plan_id) EXCEPT
                            !.status = 404]
          /\ UNCHANGED <<meal_plans, meal_entries>>
     ELSE /\ meal_plans' = [meal_plans EXCEPT ![meal_plan_id] = GonePlan]
          /\ meal_entries' = meal_entries \ EntriesOf(meal_plan_id)
          /\ meal_out' = [MealOut("delete", u, meal_plan_id) EXCEPT
                            !.changed = TRUE, !.status = AfterAudit(204)]
  /\ UNCHANGED nonMealVars

\* add_meal_plan_entry
AddMealPlanEntry(u, meal_plan_id) ==
  /\ Caller(u)
  /\ IF ~FindPlan(u, meal_plan_id)
     THEN /\ meal_out' = [MealOut("add_entry", u, meal_plan_id) EXCEPT
                            !.status = 404]
          /\ UNCHANGED meal_entries
     ELSE /\ \E e \in EntryIds : \A row \in meal_entries : row.id # e
          /\ meal_entries' = meal_entries \cup
                               {[id |-> FreshEntry, meal_plan_id |-> meal_plan_id]}
          /\ meal_out' = [MealOut("add_entry", u, meal_plan_id) EXCEPT
                            !.entries = {FreshEntry},
                            !.changed = TRUE, !.status = AfterAudit(200)]
  /\ UNCHANGED meal_plans
  /\ UNCHANGED nonMealVars

\* get_meal_plan_entries, without the optional date and meal_type filters:
\* select(MealPlanEntry).where(MealPlanEntry.meal_plan_id == meal_plan_id)
GetMealPlanEntries(u, meal_plan_id) ==
  /\ Caller(u)
  /\ meal_out' = [MealOut("list_entries", u, meal_plan_id) EXCEPT
                    !.entries = {row.id : row \in EntriesOf(meal_plan_id)},
                    !.status = 200]
  /\ UNCHANGED <<meal_plans, meal_entries>>
  /\ UNCHANGED nonMealVars

\* delete_meal_plan_entry
DeleteMealPlanEntry(u, meal_plan_id, entry_id) ==
  /\ Caller(u)
  /\ LET found == {row \in EntriesOf(meal_plan_id) :
                     row.id = entry_id /\ IsPlanCreator(u, meal_plan_id)}
     IN IF found = {}
        THEN /\ meal_out' = [MealOut("delete_entry", u, meal_plan_id) EXCEPT
                               !.status = 404]
             /\ UNCHANGED meal_entries
        ELSE /\ meal_entries' = meal_entries \ found
             /\ meal_out' = [MealOut("delete_entry", u, meal_plan_id) EXCEPT
                               !.entries = {entry_id},
                               !.changed = TRUE, !.status = AfterAudit(204)]
  /\ UNCHANGED meal_plans
  /\ UNCHANGED nonMealVars

\* ================================================================
\* Recipe endpoints
\* ================================================================
RecipeIds == 1..MaxRecipes
ReviewIds == 1..MaxReviews
Txs == 1..MaxTx
MaxRating == 5
Ratings == 0..MaxRating
\* the ratings the review requests of the model carry
ReviewRatings == {MaxRating - 1, MaxRating}
\* an optional request field: left out, or given with a value
Absent == [given |-> FALSE, value |-> <<>>]
Given(v) == [given |-> TRUE, value |-> v]
\* ingredient and step lists a request can carry
ChildLists == {<<>>} \cup {<<c>> : c \in 1..MaxChildNames}
NoRecipe == [exists |-> FALSE, used |-> FALSE, created_by |-> None,
             household_id |-> None, is_public |-> FALSE,
             ingredients |-> <<>>, steps |-> <<>>,
             avg_rating |-> None, review_count |-> 0]
GoneRecipe == [NoRecipe EXCEPT !.used = TRUE]
NoRecipeOut == [op |-> "", status |-> 0, caller |-> None, recipe_id |-> None,
                found |-> {}, hidden |-> {}]
NoTx == [st |-> "idle", user_id |-> None, recipe_id |-> None, rating |-> 0,
         review_count |-> 0, avg_rating |-> None]

FreshRecipe == CHOOSE r \in RecipeIds :
                 ~recipes[r].used /\ \A q \in RecipeIds : q < r => recipes[q].used
FreshReview == CHOOSE i \in ReviewIds : \A row \in recipe_reviews : row.id # i

\* Recipe.created_by == current_user.id
IsRecipeCreator(u, recipe_id) ==
  recipes[recipe_id].exists /\ recipes[recipe_id].created_by = u

\* Recipe.household_id == current_user.household_id; for a caller without a
\* household the comparison is IS NULL, which no row satisfies
IsRecipeMember(u, recipe_id) ==
  /\ recipes[recipe_id].exists
  /\ recipes[recipe_id].household_id = users[u].household_id

\* variant of Visible: the visibility filter is missing
VisibleAny(u, recipe_id) == recipes[recipe_id].exists

\* where(or_(created_by == caller, is_public == True, household_id == caller's))
Visible(u, recipe_id) ==
  \/ IsRecipeCreator(u, recipe_id)
  \/ recipes[recipe_id].exists /\ recipes[recipe_id].is_public
  \/ IsRecipeMember(u, recipe_id)

\* the recipes that are not for a caller: not public, created by someone
\* else, and of a household the caller does not belong to
Hidden(u) ==
  {r \in RecipeIds :
     /\ recipes[r].exists /\ ~recipes[r].is_public
     /\ recipes[r].created_by # u
     /\ users[u].household_id = None
        \/ users[u].household_id # recipes[r].household_id}

\* what a recipe request records of its caller and of the rows it met
RecipeOut(op, u, recipe_id) ==
  [NoRecipeOut EXCEPT !.op = op, !.caller = u, !.recipe_id = recipe_id,
     !.hidden = Hidden(u)]

\* create_recipe
CreateRecipe(u, is_public, ingredients, steps) ==
  /\ Caller(u)
  /\ IF users[u].household_id = None
     THEN \* the recipe's household reference is required: the flush fails
          /\ recipe_out' = [NoRecipeOut EXCEPT !.op = "create", !.caller = u,
                              !.status = 500]
          /\ UNCHANGED recipes
     ELSE /\ \E r \in RecipeIds : ~recipes[r].used
          /\ LET r == FreshRecipe IN
             /\ recipes' = [recipes EXCEPT ![r] =
                              [NoRecipe EXCEPT !.exists = TRUE, !.used = TRUE,
                                 !.created_by = u,
                                 !.household_id = users[u].household_id,
                                 !.is_public = is_public,
                                 !.ingredients = ingredients,
                                 !.steps = steps]]
             /\ recipe_out' = [NoRecipeOut EXCEPT !.op = "create",
                                 !.caller = u, !.recipe_id = r,
                                 !.status = AfterAudit(201)]
  /\ UNCHANGED <<recipe_reviews, review_tx>>
  /\ UNCHANGED nonRecipeVars

\* get_recipe
GetRecipe(u, recipe_id) ==
  /\ Caller(u)
  /\ recipe_out' = [RecipeOut("get", u, recipe_id) EXCEPT
                      !.found = IF Visible(u, recipe_id) THEN {recipe_id}
                                ELSE {},
                      !.status = IF Visible(u, recipe_id) THEN 200 ELSE 404]
  /\ UNCHANGED <<recipes, recipe_reviews, review_tx>>
  /\ UNCHANGED nonRecipeVars

\* get_recipes without the optional filters
GetRecipes(u) ==
  /\ Caller(u)
  /\ recipe_out' = [RecipeOut("list", u, None) EXCEPT
                      !.found = {r \in RecipeIds : Visible(u, r)},
                      !.status = 200]
  /\ UNCHANGED <<recipes, recipe_reviews, review_tx>>
  /\ UNCHANGED nonRecipeVars

\* the children after an update: "Delete existing ingredients" executes a
\* select, so the rows stay and the new rows are added to them
ChildrenAfter(old, new) == old \o new

\* update_recipe; is_public, ingredients and steps are optional fields
UpdateRecipe(u, recipe_id, is_public, ingredients, steps) ==
  /\ Caller(u)
  /\ IF ~IsRecipeCreator(u, recipe_id)
     THEN /\ recipe_out' = [RecipeOut("update", u, recipe_id) EXCEPT
                              !.status = 404]
          /\ UNCHANGED recipes
     ELSE /\ Len(recipes[recipe_id].ingredients) + Len(ingredients.value)
               <= MaxChildren
          /\ Len(recipes[recipe_id].steps) + Len(steps.value) <= MaxChildren
          /\ recipes' =
               [recipes EXCEPT ![recipe_id] =
                  [@ EXCEPT
                     !.is_public = IF is_public.given THEN is_public.value
                                   ELSE @,
                     !.ingredients = IF ingredients.given
                                     THEN ChildrenAfter(@, ingredients.value)
                                     ELSE @,
                     !.steps = IF steps.given
                               THEN ChildrenAfter(@, steps.value)
                               ELSE @]]
          /\ recipe_out' = [RecipeOut("update", u, recipe_id) EXCEPT
                              !.status = AfterAudit(200)]
  /\ UNCHANGED <<recipe_reviews, review_tx>>
  /\ UNCHANGED nonRecipeVars

\* delete_recipe; Recipe.reviews cascades "all, delete-orphan"
DeleteRecipe(u, recipe_id) ==
  /\ Caller(u)
  /\ IF ~IsRecipeCreator(u, recipe_id)
     THEN /\ recipe_out' = [RecipeOut("delete", u, recipe_id) EXCEPT
                              !.status = 404]
          /\ UNCHANGED <<recipes, recipe_reviews>>
     ELSE /\ recipes' = [recipes EXCEPT ![recipe_id] = GoneRecipe]
          /\ recipe_reviews' =
               {row \in recipe_reviews : row.recipe_id # recipe_id}
          /\ recipe_out' = [RecipeOut("delete", u, recipe_id) EXCEPT
                              !.status = AfterAudit(204)]
  /\ UNCHANGED review_tx
  /\ UNCHANGED nonRecipeVars

\* the reviews of one recipe
ReviewsOf(rows, recipe_id) == {row \in rows : row.recipe_id = recipe_id}

RECURSIVE SumRatings(_)
SumRatings(rows) ==
  IF rows = {} THEN 0
  ELSE LET row == CHOOSE x \in rows : TRUE
       IN row.rating + SumRatings(rows \ {row})

\* func.avg over n ratings, kept in hundredths as the Numeric(3, 2) column
\* keeps it
AvgOf(sum, n) == (200 * sum + n) \div (2 * n)

\* add_recipe_review, first statement: the recipe is selected and its row,
\* review_count included, is loaded into the request's session
ReviewSelect(t, u, recipe_id, rating) ==
  /\ Caller(u)
  /\ review_tx[t].st = "idle"
  /\ IF ~(recipes[recipe_id].exists /\
            (recipes[recipe_id].is_public \/ IsRecipeMember(u, recipe_id)))
     THEN /\ recipe_out' = [RecipeOut("review", u, recipe_id) EXCEPT
                              !.status = 404]
          /\ UNCHANGED review_tx
     ELSE /\ review_tx' = [review_tx EXCEPT ![t] =
                             [NoTx EXCEPT !.st = "selected", !.user_id = u,
                                !.recipe_id = recipe_id, !.rating = rating,
                                !.review_count =
                                   recipes[recipe_id].review_count]]
          /\ UNCHANGED recipe_out
  /\ UNCHANGED <<recipes, recipe_reviews>>
  /\ UNCHANGED nonRecipeVars

\* add_recipe_review, flush and average: the new row is in the request's
\* transaction only; func.avg sees it and the rows committed so far
ReviewFlush(t) ==
  /\ review_tx[t].st = "selected"
  /\ LET rows == ReviewsOf(recipe_reviews, review_tx[t].recipe_id)
     IN review_tx' = [review_tx EXCEPT ![t].st = "flushed",
                        ![t].avg_rating =
                           AvgOf(SumRatings(rows) + review_tx[t].rating,
                                 Cardinality(rows) + 1)]
  /\ UNCHANGED <<recipes, recipe_reviews, recipe_out>>
  /\ UNCHANGED nonRecipeVars

\* add_recipe_review, commit: the review row and the recipe's new
\* avg_rating and review_count (the count read by the select, plus one)
ReviewCommit(t) ==
  /\ review_tx[t].st = "flushed"
  /\ \E i \in ReviewIds : \A row \in recipe_reviews : row.id # i
  /\ LET tx == review_tx[t]
         out == [NoRecipeOut EXCEPT !.op = "review", !.caller = tx.user_id,
                   !.recipe_id = tx.recipe_id]
     IN IF ~recipes[tx.recipe_id].exists
        THEN \* recipe_reviews.recipe_id references recipes.id
             /\ recipe_out' = [out EXCEPT !.status = 500]
             /\ UNCHANGED <<recipes, recipe_reviews>>
        ELSE /\ recipe_reviews' = recipe_reviews \cup
                  {[id |-> FreshReview, recipe_id |-> tx.recipe_id,
                    user_id |-> tx.user_id, rating |-> tx.rating]}
             /\ recipes' = [recipes EXCEPT
                              ![tx.recipe_id].avg_rating = tx.avg_rating,
                              ![tx.recipe_id].review_count =
                                 tx.review_count + 1]
             /\ recipe_out' = [out EXCEPT !.status = AfterAudit(200)]
  /\ review_tx' = [review_tx EXCEPT ![t] = NoTx]
  /\ UNCHANGED nonRecipeVars

\* ================================================================
\* Inventory service: waste forecast
\* ================================================================
HorizonDays == 7
Max(a, b) == IF a >= b THEN a ELSE b

\* a row of inventory_items as the service reads it: quantity in
\* thousandths, purchase_price in cents; None: the column is NULL (a price of
\* zero is as false as a missing one in "if item.purchase_price")
PantryRows ==
  [household_id : 1..2, expiration_date : {None, 2, HorizonDays + 3},
   quantity : {0, 500, 1000 * MaxQty}, purchase_price : {None, 300}]
NoForecast == [op |-> "", household_id |-> None, days_ahead |-> 0,
               total_items_at_risk |-> 0, estimated_waste_value |-> 0,
               recommendations |-> 0]

\* get_expiring_items (the order_by does not bear on the totals)
GetExpiringItems(household_id, days_ahead) ==
  LET cutoff_date == today + days_ahead
      Expiring(row) == /\ row.household_id = household_id
                       /\ row.expiration_date # None
                       /\ row.expiration_date <= cutoff_date
                       /\ row.quantity > 0
  IN SelectSeq(pantry, Expiring)

\* purchase_price * (quantity / max(quantity, 1))
ItemValue(item) ==
  (item.purchase_price * item.quantity) \div Max(item.quantity, 1000)

\* the priced items among the expiring ones
IsPriced(item) == item.purchase_price # None

RECURSIVE TotalValue(_)
TotalValue(list) ==
  IF list = <<>> THEN 0
  ELSE (IF IsPriced(Head(list)) THEN ItemValue(Head(list)) ELSE 0)
       + TotalValue(Tail(list))

\* items_at_risk: an item is appended inside "if item.purchase_price"
ItemsAtRisk(expiring_items) == SelectSeq(expiring_items, IsPriced)

\* _simple_waste_forecast
SimpleWasteForecast(household_id, days_ahead) ==
  LET expiring_items == GetExpiringItems(household_id, days_ahead)
      items_at_risk == ItemsAtRisk(expiring_items)
  IN [NoForecast EXCEPT
        !.op = "forecast", !.household_id = household_id,
        !.days_ahead = days_ahead,
        !.total_items_at_risk = Len(items_at_risk),
        !.estimated_waste_value = TotalValue(expiring_items),
        !.recommendations = IF items_at_risk # <<>> THEN 3 ELSE 0]

\* forecast_waste with no AI service attached
ForecastWaste(household_id, days_ahead) ==
  /\ forecast_out' = SimpleWasteForecast(household_id, days_ahead)
  /\ UNCHANGED pantry
  /\ UNCHANGED nonForecastVars

\* ================================================================
\* Cache service
\* ================================================================
Keys == 1..MaxKeys
NoOut == [op |-> "", key |-> None, raised |-> FALSE, fault |-> FALSE,
          allowed |-> FALSE, remaining |-> 0, value |-> None, k |-> 0,
          ttl |-> None]

Restrict(f, S) == [k \in S |-> f[k]]


\* check_rate_limit, line 213: the counter key of a call made at time t
WindowKey(key, t, window) == <<key, t \div window>>

\* variant of IsAllowed: the limit itself is refused
IsAllowedStrict(count, limit) == count < limit

\* check_rate_limit, line 222
IsAllowed(count, limit) == count <= limit

\* check_rate_limit, line 223
Remaining(count, limit) == Max(0, limit - count)

\* INCR: a missing key counts from zero and has no expiry
Incr(st, wk) ==
  IF wk \in DOMAIN st
  THEN [st EXCEPT ![wk].value = @ + 1]
  ELSE [x \in DOMAIN st \cup {wk} |->
          IF x = wk THEN [value |-> 1, expire_at |-> None] ELSE st[x]]

\* EXPIRE: the key goes away `seconds` from now
Expire(st, wk, seconds) ==
  IF wk \in DOMAIN st THEN [st EXCEPT ![wk].expire_at = now + seconds] ELSE st

\* the server drops the keys whose expiry has passed
Expired(st, t) ==
  {wk \in DOMAIN st : st[wk].expire_at # None /\ st[wk].expire_at <= t}

CallsAfter(key) ==
  LET w == now \div window_seconds
  IN [calls EXCEPT ![key] =
        IF @.window = w THEN [@ EXCEPT !.n = @ + 1]
        ELSE [window |-> w, n |-> 1]]

\* CacheService.check_rate_limit; incr_err / expire_err: the command errors
CheckRateLimit(key, incr_err, expire_err) ==
  /\ calls[key].window = now \div window_seconds => calls[key].n < MaxCalls
  /\ calls' = CallsAfter(key)
  /\ IF redis_client = "none"
     THEN /\ cache_out' = [NoOut EXCEPT !.op = "check_rate_limit",
                             !.key = key, !.fault = TRUE, !.allowed = TRUE,
                             !.remaining = max_requests,
                             !.k = calls'[key].n]
          /\ UNCHANGED store
     ELSE IF incr_err
     THEN \* incr returns None; the comparison with it faults and is caught
          /\ cache_out' = [NoOut EXCEPT !.op = "check_rate_limit",
                             !.key = key, !.fault = TRUE, !.allowed = TRUE,
                             !.remaining = max_requests,
                             !.k = calls'[key].n]
          /\ UNCHANGED store
     ELSE LET wk == WindowKey(key, now, window_seconds)
              st1 == Incr(store, wk)
              count == st1[wk].value
          IN /\ store' = IF count = 1 /\ ~expire_err
                         THEN Expire(st1, wk, window_seconds)
                         ELSE st1
             /\ cache_out' = [NoOut EXCEPT !.op = "check_rate_limit",
                                !.key = key,
                                !.fault = (count = 1 /\ expire_err),
                                !.allowed = IsAllowed(count, max_requests),
                                !.remaining = Remaining(count, max_requests),
                                !.k = calls'[key].n,
                                !.ttl = IF store'[wk].expire_at = None
                                        THEN None
                                        ELSE store'[wk].expire_at - now]
  /\ UNCHANGED <<redis_client, now, max_requests, window_seconds>>
  /\ UNCHANGED nonCacheVars

\* get_cache_service -> CacheService.connect; ping_err: the server cannot be
\* reached, the client is dropped again and the fault is re-raised
GetCacheService(ping_err) ==
  /\ IF redis_client = "none"
     THEN IF ping_err
          THEN /\ redis_client' = "none"
               /\ cache_out' = [NoOut EXCEPT !.op = "get_cache_service",
                                  !.fault = TRUE, !.raised = TRUE]
          ELSE /\ redis_client' = "client"
               /\ cache_out' = [NoOut EXCEPT !.op = "get_cache_service"]
     ELSE /\ UNCHANGED redis_client
          /\ cache_out' = [NoOut EXCEPT !.op = "get_cache_service"]
  /\ UNCHANGED <<store, now, max_requests, window_seconds, calls>>
  /\ UNCHANGED nonCacheVars

\* CacheService.get; err: the command errors
Get(wk, err) ==
  /\ cache_out' =
       IF redis_client = "none" \/ err
       THEN [NoOut EXCEPT !.op = "get", !.key = wk[1], !.fault = TRUE]
       ELSE [NoOut EXCEPT !.op = "get", !.key = wk[1],
               !.value = IF wk \in DOMAIN store THEN store[wk].value ELSE None]
  /\ UNCHANGED <<redis_client, store, now, max_requests, window_seconds, calls>>
  /\ UNCHANGED nonCacheVars

\* time passes; keys past their expiry are gone
Tick ==
  /\ now < MaxTime
  /\ now' = now + 1
  /\ store' = Restrict(store, DOMAIN store \ Expired(store, now + 1))
  /\ UNCHANGED <<redis_client, max_requests, window_seconds, calls, cache_out>>
  /\ UNCHANGED nonCacheVars

\* ================================================================
\* Real-time gateway and notification registry
\* ================================================================
NoSock == [st |-> "unused", user_id |-> None, household_id |-> None,
           alive |-> FALSE]
NoBcast == [active |-> FALSE, household_id |-> None, event_type |-> "",
            exclude_user_id |-> None, i |-> 0, disconnected |-> <<>>,
            detached |-> FALSE, sentTo |-> {}]

NoEnvelope == [from |-> None, to |-> None, type |-> "", ok |-> FALSE,
               from_household |-> None, to_household |-> None]
ClosedSock == [st |-> "closed", user_id |-> None, household_id |-> None,
               alive |-> FALSE]

UpdateTypes == {"inventory_update", "meal_plan_update", "shopping_list_update"}
OtherTypes == {"ping", "bogus"}

\* handle_websocket_message: the envelope type chosen for a message type
EventTypeOf(message_type) ==
  CASE message_type = "inventory_update" -> "inventory_updated"
    [] message_type = "meal_plan_update" -> "meal_plan_updated"
    [] message_type = "shopping_list_update" -> "shopping_list_updated"
    [] message_type = "ping" -> "pong"
    [] message_type = "subscribe" -> "subscribed"
    [] OTHER -> "error"

\* list.remove(x): drops the first occurrence, ValueError (ignored) if absent
RECURSIVE ListRemove(_, _)
ListRemove(list, x) ==
  IF list = <<>> THEN <<>>
  ELSE IF Head(list) = x THEN Tail(list)
  ELSE <<Head(list)>> \o ListRemove(Tail(list), x)

\* variant of DisconnectIn: the emptied list is left under its key
DisconnectInKeep(conns, household_id, websocket) ==
  IF household_id \in DOMAIN conns
  THEN [conns EXCEPT ![household_id] = ListRemove(@, websocket)]
  ELSE conns

\* NotificationService.disconnect_websocket applied to a registry value
DisconnectIn(conns, household_id, websocket) ==
  IF household_id \in DOMAIN conns
  THEN LET rest == ListRemove(conns[household_id], websocket)
       IN IF rest = <<>>
          THEN Restrict(conns, DOMAIN conns \ {household_id})
          ELSE [conns EXCEPT ![household_id] = rest]
  ELSE conns

\* running broadcasts iterate the list object they started on; once the key
\* is deleted that object is the emptied list and a later connect makes a new one
DetachIn(bc, conns) ==
  [s \in Sockets |->
     IF bc[s].active /\ bc[s].household_id \notin DOMAIN conns
     THEN [bc[s] EXCEPT !.detached = TRUE]
     ELSE bc[s]]

RECURSIVE DisconnectAll(_, _, _)
DisconnectAll(conns, household_id, list) ==
  IF list = <<>> THEN conns
  ELSE DisconnectAll(DisconnectIn(conns, household_id, Head(list)),
                     household_id, Tail(list))

\* websocket_endpoint up to and including connect_websocket; socket objects
\* are numbered in the order the server creates them
WsConnect(s, u) ==
  /\ sock[s].st = "unused"
  /\ \A t \in Sockets : t < s => sock[t].st # "unused"
  /\ users[u].exists /\ users[u].is_active
  /\ users[u].household_id # None
  /\ LET household_id == users[u].household_id IN
     /\ sock' = [sock EXCEPT ![s] = [st |-> "open", user_id |-> u,
                                     household_id |-> household_id,
                                     alive |-> TRUE]]
     /\ active_connections' =
          IF household_id \in DOMAIN active_connections
          THEN [active_connections EXCEPT
                  ![household_id] = Append(@, s)]
          ELSE [h \in DOMAIN active_connections \cup {household_id} |->
                  IF h = household_id THEN <<s>> ELSE active_connections[h]]
  /\ last_sent' = NoEnvelope
  /\ UNCHANGED <<bcast, nmsg>>
  /\ UNCHANGED nonWsVars

\* the peer goes away; the server learns of it at its next receive or send
ClientDrop(s) ==
  /\ sock[s].st = "open" /\ sock[s].alive
  /\ sock' = [sock EXCEPT ![s].alive = FALSE]
  /\ last_sent' = NoEnvelope
  /\ UNCHANGED <<active_connections, bcast, nmsg>>
  /\ UNCHANGED nonWsVars

\* websocket_endpoint: receive_text raises WebSocketDisconnect
WsDisconnect(s) ==
  /\ sock[s].st = "open" /\ ~sock[s].alive
  /\ ~bcast[s].active
  /\ sock' = [sock EXCEPT ![s] = ClosedSock]
  /\ active_connections' =
       DisconnectIn(active_connections, sock[s].household_id, s)
  /\ bcast' = DetachIn(bcast, active_connections')
  /\ last_sent' = NoEnvelope
  /\ UNCHANGED nmsg
  /\ UNCHANGED nonWsVars

\* ---- websocket_endpoint with the token it is opened with
NoWsOut == [op |-> "", socket |-> None, verified |-> FALSE, user |-> None,
            household |-> None, code |-> 0, welcome |-> FALSE,
            registered |-> {}]

\* variant of VerifyToken: every token yields its payload
VerifyTokenAny(token) == token

\* verify_token: the payload of a token whose signature and expiry are
\* valid, the invalid-token indication otherwise
VerifyToken(token) == IF JwtDecodes(token) THEN token ELSE NoToken

\* connect_websocket: the registry after the append
ConnectWebsocket(conns, household_id, websocket) ==
  IF household_id \in DOMAIN conns
  THEN [conns EXCEPT ![household_id] = Append(@, websocket)]
  ELSE [h \in DOMAIN conns \cup {household_id} |->
          IF h = household_id THEN <<websocket>> ELSE conns[h]]

\* the households whose list holds the socket
RegisteredUnder(conns, websocket) ==
  {h \in DOMAIN conns : \E i \in DOMAIN conns[h] : conns[h][i] = websocket}

\* what the subject of a token names before the endpoint runs: an existing
\* active user, and that user's household
SubjectUser(token) ==
  IF SubjectActive(token) THEN UuidOfUser(token.sub) ELSE None

\* websocket_endpoint, from the handshake to the welcome message
WebsocketEndpoint(s, token) ==
  /\ sock[s].st = "unused"
  /\ \A t \in Sockets : t < s => sock[t].st # "unused"
  /\ LET payload == VerifyToken(token)
         user_id == payload.sub
         user == IF payload = NoToken \/ user_id = Word("none") THEN None
                 ELSE IF IsActiveUser(UuidOfUser(user_id))
                 THEN UuidOfUser(user_id) ELSE None
         out == [NoWsOut EXCEPT
                   !.op = "connect", !.socket = s,
                   !.verified = JwtDecodes(token),
                   !.user = SubjectUser(token),
                   !.household = IF SubjectUser(token) = None THEN None
                                 ELSE users[SubjectUser(token)].household_id]
     IN IF user = None \/ users[user].household_id = None
        THEN \* websocket.close(code=1008, ...) and return
             /\ sock' = [sock EXCEPT ![s] = ClosedSock]
             /\ ws_out' = [out EXCEPT !.code = 1008]
             /\ UNCHANGED active_connections
        ELSE /\ sock' = [sock EXCEPT ![s] =
                           [st |-> "open", user_id |-> user,
                            household_id |-> users[user].household_id,
                            alive |-> TRUE]]
             /\ active_connections' =
                  ConnectWebsocket(active_connections,
                                   users[user].household_id, s)
             /\ ws_out' = [out EXCEPT
                             !.welcome = TRUE,
                             !.registered =
                                RegisteredUnder(active_connections', s)]
  /\ last_sent' = NoEnvelope
  /\ UNCHANGED <<bcast, nmsg>>
  /\ UNCHANGED nonGateVars

RECURSIVE ConcatLists(_, _)
ConcatLists(conns, keys) ==
  IF keys = {} THEN <<>>
  ELSE LET k == CHOOSE x \in keys : \A y \in keys : x <= y
       IN conns[k] \o ConcatLists(conns, keys \ {k})

\* variant of IterList: the loop runs over the sockets of every household
IterListAll(b) ==
  IF b.detached \/ b.household_id \notin DOMAIN active_connections
  THEN <<>>
  ELSE ConcatLists(active_connections, DOMAIN active_connections)

\* the list a running broadcast iterates
IterList(b) ==
  IF b.detached \/ b.household_id \notin DOMAIN active_connections
  THEN <<>>
  ELSE active_connections[b.household_id]

\* send_household_update, line 77: the sockets the loop passes over
Excluded(websocket, exclude_user_id) ==
  exclude_user_id # None /\ sock[websocket].user_id = exclude_user_id

\* first index >= i of a socket the loop sends to, Len + 1 when none is left
RECURSIVE NextIdx(_, _, _)
NextIdx(list, i, exclude_user_id) ==
  IF i > Len(list) THEN i
  ELSE IF Excluded(list[i], exclude_user_id)
       THEN NextIdx(list, i + 1, exclude_user_id)
       ELSE i

\* handle_websocket_message: reply to the sender, or enter send_household_update
WsMessage(s, message_type) ==
  /\ sock[s].st = "open" /\ sock[s].alive
  /\ ~bcast[s].active
  /\ nmsg < MaxMsgs
  /\ nmsg' = nmsg + 1
  /\ IF message_type \in UpdateTypes
     THEN /\ sock[s].household_id \in DOMAIN active_connections
          /\ bcast' = [bcast EXCEPT ![s] =
                         [active |-> TRUE,
                          household_id |-> sock[s].household_id,
                          event_type |-> EventTypeOf(message_type),
                          exclude_user_id |-> sock[s].user_id,
                          i |-> 1, disconnected |-> <<>>,
                          detached |-> FALSE, sentTo |-> {}]]
          /\ last_sent' = NoEnvelope
     ELSE /\ last_sent' = [from |-> s, to |-> s,
                           type |-> EventTypeOf(message_type), ok |-> TRUE,
                           from_household |-> sock[s].household_id,
                           to_household |-> sock[s].household_id]
          /\ UNCHANGED bcast
  /\ UNCHANGED <<sock, active_connections>>
  /\ UNCHANGED nonWsVars

\* send_household_update resumed: pass over excluded sockets and either
\* await the next send_json or leave the loop and prune the failed sockets
BroadcastStep(s) ==
  /\ bcast[s].active
  /\ LET b == bcast[s]
         list == IterList(b)
         j == NextIdx(list, b.i, b.exclude_user_id)
     IN IF j <= Len(list)
        THEN /\ last_sent' = [from |-> s, to |-> list[j],
                              type |-> b.event_type,
                              ok |-> sock[list[j]].alive,
                              from_household |-> sock[s].household_id,
                              to_household |-> sock[list[j]].household_id]
             /\ bcast' =
                  IF sock[list[j]].alive
                  THEN [bcast EXCEPT ![s].i = j + 1,
                                     ![s].sentTo = @ \cup {list[j]}]
                  ELSE [bcast EXCEPT ![s].i = j + 1,
                                     ![s].disconnected = Append(@, list[j])]
             /\ UNCHANGED active_connections
        ELSE /\ active_connections' =
                  DisconnectAll(active_connections, b.household_id,
                                b.disconnected)
             /\ bcast' = DetachIn([bcast EXCEPT ![s] = NoBcast],
                                  active_connections')
             /\ last_sent' = NoEnvelope
  /\ UNCHANGED <<sock, nmsg>>
  /\ UNCHANGED nonWsVars

\* the cache service as constructed, before any use
CacheIdle ==
  /\ redis_client = "none"
  /\ store = <<>>
  /\ now = 0
  /\ max_requests = 1
  /\ window_seconds = 1
  /\ calls = [k \in Keys |-> [window |-> -1, n |-> 0]]
  /\ cache_out = NoOut

\* three accounts, two of them in household 1 and one in household 2
WsUsers ==
  [u \in UserIds |->
     IF u \in {1, 2, 3}
     THEN [exists |-> TRUE, username |-> u, email |-> u, password |-> 1,
           household_id |-> IF u = 3 THEN 2 ELSE 1, is_active |-> TRUE]
     ELSE NoUser]
WsHouseholds ==
  [h \in HouseholdIds |->
     IF h = 1 THEN [exists |-> TRUE, name |-> [username |-> 1, text |-> "'s Household"], owner_id |-> 1]
     ELSE IF h = 2 THEN [exists |-> TRUE, name |-> [username |-> 3, text |-> "'s Household"], owner_id |-> 3]
     ELSE NoHousehold]

\* no audit row written yet
NoAuditOut == [op |-> "", raised |-> FALSE]
AuditIdle ==
  /\ audit_logs = <<>>
  /\ audit_out = NoAuditOut

\* no meal plan yet
MealIdle ==
  /\ meal_plans = [p \in PlanIds |-> NoPlan]
  /\ meal_entries = {}
  /\ meal_out = NoMealOut

\* no recipe yet and no review request under way
RecipeIdle ==
  /\ recipes = [r \in RecipeIds |-> NoRecipe]
  /\ recipe_reviews = {}
  /\ review_tx = [t \in Txs |-> NoTx]
  /\ recipe_out = NoRecipeOut

\* no inventory row for the service to read and no forecast made
ForecastIdle ==
  /\ pantry = <<>>
  /\ forecast_out = NoForecast

\* no socket has been opened with a token
GateIdle ==
  /\ ws_out = NoWsOut

\* ================================================================
\* create_household run by overlapping requests
\* ================================================================
\* a create-household request between its ownership check and its commit
NoHouseholdTx == [pc |-> "idle", user |-> None, name |-> NoName]

\* create_household, lines 164-169: the ownership check, made against the
\* rows committed when the request reads them
CreateHouseholdCheck(t, u, name) ==
  /\ Caller(u)
  /\ household_tx[t].pc = "idle"
  /\ IF OwnedHouseholds(u) # {}
     THEN /\ acct_out' = [NoAcctOut EXCEPT !.op = "create_household",
                            !.caller = u, !.pre_owner = TRUE,
                            !.pre_household = users[u].household_id,
                            !.status = 400]
          /\ UNCHANGED household_tx
     ELSE /\ household_tx' = [household_tx EXCEPT ![t] =
                                [pc |-> "flush", user |-> u, name |-> name]]
          /\ UNCHANGED acct_out
  /\ UNCHANGED <<users, households, authVars>>
  /\ UNCHANGED <<wsVars, cacheVars, invVars, nonOwnVars>>

\* create_household, lines 172-182: the row is added and flushed, the user
\* is moved into the household and the transaction commits; owner_id
\* carries no unique constraint (models/user.py:20)
CreateHouseholdCommit(t) ==
  LET u == household_tx[t].user
      out == [NoAcctOut EXCEPT !.op = "create_household", !.caller = u,
                !.pre_owner = FALSE,
                !.pre_household = users[u].household_id]
  IN
  /\ household_tx[t].pc = "flush"
  /\ \E h \in HouseholdIds : ~households[h].exists
  /\ households' = [households EXCEPT ![FreshHousehold] =
                      [exists |-> TRUE, name |-> household_tx[t].name,
                       owner_id |-> u]]
  /\ users' = [users EXCEPT ![u].household_id = FreshHousehold]
  /\ acct_out' = [out EXCEPT !.status = AfterAudit(200),
                    !.household = FreshHousehold, !.changed = TRUE]
  /\ household_tx' = [household_tx EXCEPT ![t] = NoHouseholdTx]
  /\ UNCHANGED authVars
  /\ UNCHANGED <<wsVars, cacheVars, invVars, nonOwnVars>>

\* no create-household request under way
OwnIdle ==
  /\ household_tx = [t \in Txs |-> NoHouseholdTx]

\* ================================================================
\* AI endpoints and the premium gate
\* ================================================================
\* what the inference server can answer to POST /api/generate: a status
\* other than 200, or 200 with a "response" text that is prose, JSON that is
\* not an object, an object the schema rejects, or an object it accepts
Replies == {"status_error", "prose", "json_array", "json_object_invalid",
            "json_object_valid"}

\* the methods InventoryService defines (inventory_service.py:35-250)
InventoryServiceMethods ==
  {"get_expiring_items", "get_low_stock_items",
   "get_shopping_recommendations", "forecast_waste",
   "_simple_waste_forecast", "_get_consumption_history",
   "add_item_from_barcode", "send_expiration_alerts"}

NoAiOut == [op |-> "", status |-> 0, caller |-> None, premium |-> FALSE,
            result |-> "unattempted"]

\* AIService._generate_completion: the text handed back to the caller
GenerateCompletion(enabled, reply) ==
  IF ~enabled THEN "prose"          \* "AI features are disabled"
  ELSE IF reply = "status_error"
  THEN "prose"                      \* "Sorry, I couldn't process that request."
  ELSE reply

\* json.loads(response) followed by Schema(**data), as both services do:
\* JSONDecodeError and TypeError give None, a validation error propagates
ParseInto(response) ==
  IF response = "prose" THEN "none"
  ELSE IF response = "json_array" THEN "none"
  ELSE IF response = "json_object_invalid" THEN "raise"
  ELSE "value"

\* AIService.generate_recipe_from_ingredients
GenerateRecipeFromIngredients(enabled, reply) ==
  ParseInto(GenerateCompletion(enabled, reply))

\* AIService.generate_meal_plan: the inventory is read first, through a
\* method InventoryService does not define
GenerateMealPlanService(enabled, reply) ==
  IF "get_user_inventory_items" \notin InventoryServiceMethods
  THEN "raise"
  ELSE ParseInto(GenerateCompletion(enabled, reply))

\* what the body of a handler's try block ends with
TryOutcome(result) ==
  IF result = "raise" THEN "Exception"
  ELSE IF result = "none" THEN "HTTPException400"
  ELSE "return"

\* generate_recipe: one handler, except Exception, around the whole body
GenerateRecipe(u, enabled, reply) ==
  LET recipe == GenerateRecipeFromIngredients(enabled, reply)
  IN
  /\ Caller(u)
  /\ ai_out' = [op |-> "generate_recipe", caller |-> u,
                premium |-> is_premium[u], result |-> recipe,
                status |-> IF TryOutcome(recipe) = "return" THEN 200
                           ELSE 500]
  /\ UNCHANGED is_premium
  /\ UNCHANGED <<acctVars, wsVars, cacheVars, invVars, nonAiVars>>

\* generate_meal_plan: HTTPException is re-raised before except Exception
GenerateMealPlan(u, enabled, reply) ==
  LET meal_plan == GenerateMealPlanService(enabled, reply)
      out == [NoAiOut EXCEPT !.op = "generate_meal_plan", !.caller = u,
                !.premium = is_premium[u]]
  IN
  /\ Caller(u)
  /\ ai_out' =
       IF ~is_premium[u] THEN [out EXCEPT !.status = 403]
       ELSE [out EXCEPT !.result = meal_plan,
               !.status = IF TryOutcome(meal_plan) = "return" THEN 200
                          ELSE IF TryOutcome(meal_plan) = "HTTPException400"
                          THEN 400
                          ELSE 500]
  /\ UNCHANGED is_premium
  /\ UNCHANGED <<acctVars, wsVars, cacheVars, invVars, nonAiVars>>

\* import_recipe_from_url: the placeholder recipe satisfies its schema
ImportRecipeFromUrl(u) ==
  LET out == [NoAiOut EXCEPT !.op = "import_recipe_from_url", !.caller = u,
                !.premium = is_premium[u]]
  IN
  /\ Caller(u)
  /\ ai_out' = IF ~is_premium[u] THEN [out EXCEPT !.status = 403]
               ELSE [out EXCEPT !.status = 200, !.result = "value"]
  /\ UNCHANGED is_premium
  /\ UNCHANGED <<acctVars, wsVars, cacheVars, invVars, nonAiVars>>

\* update_current_user with a body that sets is_premium: UserUpdate carries
\* the field and the handler copies every field given onto the row, commits
\* and then writes the audit entry
UpdateCurrentUserPremium(u, value) ==
  /\ Caller(u)
  /\ is_premium' = [is_premium EXCEPT ![u] = value]
  /\ ai_out' = [NoAiOut EXCEPT !.op = "update_current_user", !.caller = u,
                  !.premium = is_premium[u], !.status = AfterAudit(200)]
  /\ UNCHANGED <<acctVars, wsVars, cacheVars, invVars, nonAiVars>>

\* no account is premium (the column's default) and no request was made
AiIdle ==
  /\ is_premium = [u \in UserIds |-> FALSE]
  /\ ai_out = NoAiOut

\* ================================================================
\* NotificationService: push-token registry and cleanup
\* ================================================================
PushTokens == 1..MaxPushTokens

NoCleanup == [pc |-> "idle", size |-> 0, visited |-> {}, key |-> None,
              i |-> 0, tracked |-> {}, attempted |-> {}]

\* every socket listed in a registry value
Tracked(conns) ==
  {s \in Sockets : RegisteredUnder(conns, s) # {}}

\* register_push_token; the platform is left at its default
RegisterPushToken(user_id, token) ==
  /\ push_tokens' =
       IF user_id \notin DOMAIN push_tokens
       THEN [u \in DOMAIN push_tokens \cup {user_id} |->
               IF u = user_id THEN <<token>> ELSE push_tokens[u]]
       ELSE IF \E k \in DOMAIN push_tokens[user_id] :
                 push_tokens[user_id][k] = token
       THEN push_tokens
       ELSE [push_tokens EXCEPT ![user_id] = Append(@, token)]
  /\ UNCHANGED cleanup_run
  /\ UNCHANGED <<acctVars, wsVars, cacheVars, invVars, nonCleanupVars>>

\* unregister_push_token
UnregisterPushToken(user_id, token) ==
  /\ user_id \in DOMAIN push_tokens
  /\ LET rest == SelectSeq(push_tokens[user_id], LAMBDA t : t # token)
     IN push_tokens' =
          IF rest = <<>>
          THEN Restrict(push_tokens, DOMAIN push_tokens \ {user_id})
          ELSE [push_tokens EXCEPT ![user_id] = rest]
  /\ UNCHANGED cleanup_run
  /\ UNCHANGED <<acctVars, wsVars, cacheVars, invVars, nonCleanupVars>>

\* cleanup, line 311: close is awaited on a socket; the peer and the
\* socket's handler see the connection end, whether or not close raised
AwaitClose(run, key, i) ==
  LET websocket == active_connections[key][i] IN
  /\ sock' = [sock EXCEPT ![websocket].alive = FALSE]
  /\ cleanup_run' = [run EXCEPT !.pc = "closing", !.key = key, !.i = i,
                       !.visited = @ \cup {key},
                       !.attempted = @ \cup {websocket}]
  /\ UNCHANGED active_connections

\* cleanup, line 308: the dict iterator is advanced.  It raises RuntimeError
\* when the dict has another size than when the loop began; the registry
\* value does not record insertion order, any unvisited key may come next.
\* With no key left the loop ends and the connection registry is cleared.
NextHousehold(run) ==
  IF Cardinality(DOMAIN active_connections) # run.size
  THEN /\ cleanup_run' = [run EXCEPT !.pc = "raised"]
       /\ UNCHANGED <<sock, active_connections>>
  ELSE IF DOMAIN active_connections \subseteq run.visited
  THEN /\ active_connections' = <<>>
       /\ cleanup_run' = [run EXCEPT !.pc = "returned"]
       /\ UNCHANGED sock
  ELSE \E key \in DOMAIN active_connections \ run.visited :
         AwaitClose(run, key, 1)

\* cleanup from its call to its first await
CleanupStart ==
  /\ cleanup_run.pc = "idle"
  /\ NextHousehold([NoCleanup EXCEPT
                      !.size = Cardinality(DOMAIN active_connections),
                      !.tracked = Tracked(active_connections)])
  /\ bcast' = DetachIn(bcast, active_connections')
  /\ last_sent' = NoEnvelope
  /\ UNCHANGED <<nmsg, push_tokens>>
  /\ UNCHANGED <<acctVars, cacheVars, invVars, nonCleanupVars>>

\* cleanup resumed after a close: the list iterator moves on in the list
\* object it holds, which is the emptied list once its key was deleted
CleanupResume ==
  /\ cleanup_run.pc = "closing"
  /\ LET run == cleanup_run
         connections == IF run.key \in DOMAIN active_connections
                        THEN active_connections[run.key] ELSE <<>>
     IN IF run.i + 1 <= Len(connections)
        THEN AwaitClose(run, run.key, run.i + 1)
        ELSE NextHousehold(run)
  /\ bcast' = DetachIn(bcast, active_connections')
  /\ last_sent' = NoEnvelope
  /\ UNCHANGED <<nmsg, push_tokens>>
  /\ UNCHANGED <<acctVars, cacheVars, invVars, nonCleanupVars>>

\* no push token registered and cleanup not called
CleanupIdle ==
  /\ push_tokens = <<>>
  /\ cleanup_run = NoCleanup

\* ================================================================
\* Application lifespan: startup and shutdown
\* ================================================================
\* settings.ENVIRONMENT
Environments == {"development", "production"}

\* engine: the module-level engine and whether it holds connections;
\* ai_service: app.state.ai_service; session: AIService.session;
\* engine_at_construct / engine_at_release: the engine as it was when the
\* AI service was constructed and when its resources were released
NoLifespan == [pc |-> "startup", environment |-> "development",
               enable_ai |-> TRUE, engine |-> "created",
               ai_service |-> "absent", session |-> "none",
               engine_at_construct |-> "", engine_at_release |-> ""]

\* lifespan, lines 27-28: setup_logging and init_db; init_db re-raises
\* whatever its connection test raised
LifespanInitDb(reachable) ==
  /\ lifespan_run.pc = "startup"
  /\ lifespan_run' =
       IF reachable
       THEN [lifespan_run EXCEPT !.pc = "init_ai", !.engine = "connected"]
       ELSE [lifespan_run EXCEPT !.pc = "failed"]
  /\ UNCHANGED <<acctVars, wsVars, cacheVars, invVars, nonLifeVars>>

\* lifespan, lines 31-33: the AI service is constructed and
\* initialize_models runs; with AI enabled it lists the models over a new
\* HTTP session, and a failure is re-raised in development only
LifespanInitAi(models_listed) ==
  /\ lifespan_run.pc = "init_ai"
  /\ LET made == [lifespan_run EXCEPT
                    !.ai_service = "constructed",
                    !.engine_at_construct = lifespan_run.engine]
     IN lifespan_run' =
          IF ~made.enable_ai
          THEN [made EXCEPT !.pc = "serving", !.ai_service = "initialized"]
          ELSE IF models_listed
          THEN [made EXCEPT !.pc = "serving", !.ai_service = "initialized",
                  !.session = "open"]
          ELSE IF made.environment = "development"
          THEN [made EXCEPT !.pc = "failed", !.session = "open"]
          ELSE [made EXCEPT !.pc = "serving", !.ai_service = "initialized",
                  !.session = "open"]
  /\ UNCHANGED <<acctVars, wsVars, cacheVars, invVars, nonLifeVars>>

\* lifespan, line 39: the first statement after the yield is close_db,
\* which disposes the engine
LifespanCloseDb ==
  /\ lifespan_run.pc = "serving"
  /\ lifespan_run' = [lifespan_run EXCEPT !.pc = "cleanup_ai",
                        !.engine = "disposed"]
  /\ UNCHANGED <<acctVars, wsVars, cacheVars, invVars, nonLifeVars>>

\* lifespan, lines 40-41: AIService.cleanup closes the HTTP session
LifespanCleanupAi ==
  /\ lifespan_run.pc = "cleanup_ai"
  /\ lifespan_run' =
       [lifespan_run EXCEPT !.pc = "stopped", !.ai_service = "released",
          !.session = IF @ = "open" THEN "closed" ELSE @,
          !.engine_at_release = lifespan_run.engine]
  /\ UNCHANGED <<acctVars, wsVars, cacheVars, invVars, nonLifeVars>>

\* the application has not been started
LifeIdle ==
  /\ lifespan_run = NoLifespan

\* ================================================================
\* CacheService.connect under concurrent callers
\* ================================================================
Callers == 1..MaxCallers

\* variant of LockFree: connect runs without taking the lock
LockFreeAlways == TRUE

\* async with self._lock can be entered
LockFree == lock = None

\* connect from its call, or from its wait for the lock, to its first await
\* or its return: the lock is taken, and with no client a client is constructed and assigned before
\* ping is awaited; with a client the call returns at once
ConnectEnter(c) ==
  /\ connect_pc[c] \in {"idle", "waiting"}
  /\ LockFree
  /\ IF redis_client = "none"
     THEN /\ clients.constructed < MaxClients
          /\ redis_client' = "client"
          /\ clients' = [clients EXCEPT !.constructed = @ + 1]
          /\ lock' = c
          /\ connect_pc' = [connect_pc EXCEPT ![c] = "ping"]
     ELSE /\ connect_pc' = [connect_pc EXCEPT ![c] = "returned"]
          /\ UNCHANGED <<redis_client, clients, lock>>
  /\ UNCHANGED <<store, now, max_requests, window_seconds, calls, cache_out>>
  /\ UNCHANGED <<acctVars, wsVars, invVars, nonConnVars>>

\* connect called while another call holds the lock: the caller is suspended
\* in the acquire
ConnectWait(c) ==
  /\ connect_pc[c] = "idle"
  /\ ~LockFree
  /\ connect_pc' = [connect_pc EXCEPT ![c] = "waiting"]
  /\ UNCHANGED <<lock, clients>>
  /\ UNCHANGED <<acctVars, wsVars, cacheVars, invVars, nonConnVars>>

\* connect resumed after ping; ping_err: the server cannot be reached, the
\* client is dropped and the fault re-raised.  The lock is released
ConnectPing(c, ping_err) ==
  /\ connect_pc[c] = "ping"
  /\ IF ping_err
     THEN /\ redis_client' = "none"
          /\ clients' = [clients EXCEPT !.dropped = @ + 1]
          /\ connect_pc' = [connect_pc EXCEPT ![c] = "raised"]
     ELSE /\ connect_pc' = [connect_pc EXCEPT ![c] = "returned"]
          /\ UNCHANGED <<redis_client, clients>>
  /\ lock' = IF lock = c THEN None ELSE lock
  /\ UNCHANGED <<store, now, max_requests, window_seconds, calls, cache_out>>
  /\ UNCHANGED <<acctVars, wsVars, invVars, nonConnVars>>

\* the caller goes on after connect returned or raised
ConnectDone(c) ==
  /\ connect_pc[c] \in {"returned", "raised"}
  /\ connect_pc' = [connect_pc EXCEPT ![c] = "idle"]
  /\ UNCHANGED <<lock, clients>>
  /\ UNCHANGED <<acctVars, wsVars, cacheVars, invVars, nonConnVars>>

\* the lock is free and no connect call is under way
ConnIdle ==
  /\ lock = None
  /\ connect_pc = [c \in Callers |-> "idle"]
  /\ clients = [constructed |-> 0, dropped |-> 0]

\* no later subsystem has run
LateIdle ==
  /\ OwnIdle
  /\ AiIdle
  /\ CleanupIdle
  /\ LifeIdle
  /\ ConnIdle

\* the subsystems a specification does not exercise
RestIdle ==
  /\ AuditIdle
  /\ MealIdle
  /\ RecipeIdle
  /\ ForecastIdle
  /\ GateIdle
  /\ LateIdle

InvEmpty ==
  /\ items = [i \in ItemIds |-> NoItem]
  /\ logs = {}
  /\ inv_out = NoInvOut

WsIdle ==
  /\ sock = [s \in Sockets |-> NoSock]
  /\ active_connections = <<>>
  /\ bcast = [s \in Sockets |-> NoBcast]
  /\ last_sent = NoEnvelope
  /\ nmsg = 0

AcctEmpty ==
  /\ users = [u \in UserIds |-> NoUser]
  /\ households = [h \in HouseholdIds |-> NoHousehold]
  /\ sessions = <<>>
  /\ tokens = {}
  /\ today = 0
  /\ acct_out = NoAcctOut

InitWS ==
  /\ users = WsUsers
  /\ households = WsHouseholds
  /\ sessions = <<>>
  /\ tokens = {}
  /\ today = 0
  /\ acct_out = NoAcctOut
  /\ sock = [s \in Sockets |-> NoSock]
  /\ active_connections = <<>>
  /\ bcast = [s \in Sockets |-> NoBcast]
  /\ last_sent = NoEnvelope
  /\ nmsg = 0
  /\ CacheIdle
  /\ InvEmpty
  /\ RestIdle

NextWS ==
  \/ \E s \in Sockets, u \in UserIds : WsConnect(s, u)
  \/ \E s \in Sockets : ClientDrop(s)
  \/ \E s \in Sockets : WsDisconnect(s)
  \/ \E s \in Sockets, t \in UpdateTypes \cup OtherTypes : WsMessage(s, t)
  \/ \E s \in Sockets : BroadcastStep(s)

SpecWS == InitWS /\ [][NextWS]_vars

\* ---- rate limiting against a reachable cache server
InitRate ==
  /\ AcctEmpty
  /\ WsIdle
  /\ InvEmpty
  /\ RestIdle
  /\ redis_client = "client"
  /\ store = <<>>
  /\ now = 0
  /\ max_requests \in 0..MaxRequests
  /\ window_seconds \in 1..MaxWindow
  /\ calls = [k \in Keys |-> [window |-> -1, n |-> 0]]
  /\ cache_out = NoOut

NextRate ==
  \/ \E key \in Keys : CheckRateLimit(key, FALSE, FALSE)
  \/ Tick

SpecRate == InitRate /\ [][NextRate]_vars

\* ---- the cache service with connection and command faults, within one
\* rate-limit window
InitCache ==
  /\ AcctEmpty
  /\ WsIdle
  /\ InvEmpty
  /\ RestIdle
  /\ redis_client = "none"
  /\ store = <<>>
  /\ now = 0
  /\ max_requests \in 0..MaxRequests
  /\ window_seconds \in 1..MaxWindow
  /\ calls = [k \in Keys |-> [window |-> -1, n |-> 0]]
  /\ cache_out = NoOut

NextCache ==
  \/ \E ping_err \in BOOLEAN : GetCacheService(ping_err)
  \/ \E key \in Keys, incr_err \in BOOLEAN, expire_err \in BOOLEAN :
       CheckRateLimit(key, incr_err, expire_err)
  \/ \E key \in Keys, err \in BOOLEAN :
       Get(WindowKey(key, now, window_seconds), err)

SpecCache == InitCache /\ [][NextCache]_vars

\* ---- inventory requests of the members of two households
InitInv ==
  /\ users = WsUsers
  /\ households = WsHouseholds
  /\ sessions = <<>>
  /\ tokens = {}
  /\ today = 0
  /\ acct_out = NoAcctOut
  /\ WsIdle
  /\ CacheIdle
  /\ InvEmpty
  /\ RestIdle

NextInv ==
  \/ \E u \in UserIds, q \in 0..MaxQty : CreateItem(u, q)
  \/ \E u \in UserIds, i \in ItemIds : GetItem(u, i)
  \/ \E u \in UserIds, i \in ItemIds, q \in (0..MaxQty) \cup {Unset} :
       UpdateItem(u, i, q)
  \/ \E u \in UserIds, i \in ItemIds : DeleteItem(u, i)
  \/ \E u \in UserIds, i \in ItemIds, q \in 1..(MaxQty + 1) :
       LogConsumption(u, i, q)

SpecInv == InitInv /\ [][NextInv]_vars

\* ---- household membership: register, create, invite, join, leave
\* the invitation tokens tried: well-formed ones naming a household that may
\* exist, a well-formed identifier of no household, a non-identifier, and
\* tokens with a wrong first part or a wrong number of parts
JoinTokens ==
  {<<Word("invite")>>}
    \cup {<<Word("invite"), b, StrUser(u)>> :
            b \in {Word("junk")} \cup
                  {StrHousehold(h) : h \in 1..(MaxNames + 1)},
            u \in 1..MaxNames}
    \cup {<<Word("junk"), StrHousehold(1), StrUser(u)>> : u \in 1..MaxNames}
    \cup {<<Word("invite"), StrHousehold(1), StrUser(u), Word("junk")>> :
            u \in 1..MaxNames}

InitHouse ==
  /\ AcctEmpty
  /\ WsIdle
  /\ CacheIdle
  /\ InvEmpty
  /\ RestIdle

NextHouse ==
  \/ \E n \in 1..MaxNames, h \in 1..MaxNames \cup {None} : Register(n, n, h)
  \/ \E u \in UserIds : CreateHousehold(u, [username |-> None, text |-> "Home"])
  \/ \E u \in UserIds, e \in 1..MaxNames : InviteToHousehold(u, e)
  \/ \E u \in UserIds, parts \in JoinTokens : JoinHousehold(u, parts)
  \/ \E u \in UserIds : LeaveHousehold(u)

SpecHouse == InitHouse /\ [][NextHouse]_vars

\* ---- registration
InitReg == InitHouse

NextReg ==
  \/ \E n \in 1..MaxNames, e \in 1..MaxNames,
        h \in HouseholdIds \cup {None} : Register(n, e, h)
  \/ \E u \in UserIds : CreateHousehold(u, [username |-> None, text |-> "Home"])

SpecReg == InitReg /\ [][NextReg]_vars

\* ---- authentication: login, logout, refresh, authenticated requests
Passwords == {1, 2}

InitAuth ==
  /\ users = WsUsers
  /\ households = WsHouseholds
  /\ sessions = <<>>
  /\ tokens = {}
  /\ today = 0
  /\ acct_out = NoAcctOut
  /\ WsIdle
  /\ CacheIdle
  /\ InvEmpty
  /\ RestIdle

NextAuth ==
  \/ \E by \in {"username", "email"}, n \in 1..MaxNames, pw \in Passwords :
        Login(by, n, pw)
  \/ \E t \in Presentable : Logout(t)
  \/ \E t \in Presentable : RefreshToken(t)
  \/ \E t \in Presentable : GetCurrentUserInfo(t)
  \/ \E t \in Presentable : UpdateCurrentUser(t, FALSE)
  \/ Days

SpecAuth == InitAuth /\ [][NextAuth]_vars

\* ================================================================
\* Properties
\* ================================================================
UpdateEvents == {EventTypeOf(t) : t \in UpdateTypes}

\* C1: an envelope broadcast because of an update message from a socket
\* registered under household A is never handed to a socket registered under
\* a different household B
C1_HouseholdIsolation ==
  (last_sent.from # None /\ last_sent.type \in UpdateEvents)
    => last_sent.to_household = last_sent.from_household

\* C1 witness: an update envelope reaches another socket of the sender's
\* household while a socket of a different household is registered
C1_Witness ==
  /\ last_sent.type \in UpdateEvents /\ last_sent.ok
  /\ last_sent.to # last_sent.from
  /\ \E t \in Sockets :
       /\ sock[t].st = "open" /\ sock[t].alive
       /\ sock[t].household_id # last_sent.from_household
       /\ t \in {active_connections[sock[t].household_id][k] :
                  k \in 1..Len(active_connections[sock[t].household_id])}

\* sockets listed under a household key of a registry value
Registered(conns, household_id) ==
  IF household_id \in DOMAIN conns
  THEN {conns[household_id][k] : k \in 1..Len(conns[household_id])}
  ELSE {}

\* C2: when the broadcast started by an update message of socket s returns,
\* every other socket registered under s's household (before and after the
\* pruning of failed sockets) has been sent the envelope, and s has not
C2_EveryOtherSocketReceives ==
  [][\A s \in Sockets :
       (bcast[s].active /\ ~bcast'[s].active) =>
          /\ s \notin bcast[s].sentTo
          /\ \A t \in Sockets \ {s} :
               (/\ t \in Registered(active_connections, bcast[s].household_id)
                /\ t \in Registered(active_connections', bcast[s].household_id))
                 => t \in bcast[s].sentTo]_vars

C4_FailOpen ==
  cache_out.fault =>
    /\ ~cache_out.raised
    /\ cache_out.op = "check_rate_limit" =>
         (cache_out.allowed /\ cache_out.remaining = max_requests)
    /\ cache_out.op = "get" => cache_out.value = None

\* C5: a consume of q on an item with quantity Q leaves Q - q when that is
\* positive and otherwise deletes the item, and no persisted item has a
\* negative quantity
C5_ConsumeDeletesAtZero ==
  /\ \A i \in ItemIds : items[i].exists => items[i].quantity >= 0
  /\ (inv_out.op = "consume" /\ inv_out.found) =>
       IF inv_out.before - inv_out.used > 0
       THEN /\ items[inv_out.item_id].exists
            /\ items[inv_out.item_id].quantity = inv_out.before - inv_out.used
       ELSE ~items[inv_out.item_id].exists

\* ---- C6 ----
KnownHousehold(chunk) ==
  \E h \in HouseholdIds : households[h].exists /\ chunk = StrHousehold(h)

WellFormedInvite(parts) == Len(parts) = 3 /\ parts[1] = Word("invite")

\* C6: join_household by caller C answers 400 to a token that is not three
\* parts starting with "invite", 403 when the embedded user is not C, 400
\* when C already has a household, 404 when the embedded household is
\* unknown, each time leaving C's membership as it was; C's household is
\* set, and then to the embedded household, only when the token is well
\* formed, names C, C has no household and the household exists.
C6_JoinOutcomes ==
  acct_out.op = "join" =>
    LET parts == acct_out.token
        c == acct_out.caller
    IN /\ ~WellFormedInvite(parts) =>
            acct_out.status = 400 /\ ~acct_out.changed
       /\ (WellFormedInvite(parts) /\ parts[3] # StrUser(c)) =>
            acct_out.status = 403 /\ ~acct_out.changed
       /\ (WellFormedInvite(parts) /\ parts[3] = StrUser(c)
            /\ acct_out.pre_household # None) =>
            acct_out.status = 400 /\ ~acct_out.changed
       /\ (WellFormedInvite(parts) /\ parts[3] = StrUser(c)
            /\ acct_out.pre_household = None
            /\ ~KnownHousehold(parts[2])) =>
            acct_out.status = 404 /\ ~acct_out.changed
       /\ acct_out.changed =>
            /\ WellFormedInvite(parts) /\ parts[3] = StrUser(c)
            /\ acct_out.pre_household = None
            /\ KnownHousehold(parts[2])
            /\ StrHousehold(users[c].household_id) = parts[2]

\* ---- C7 ----
OwnerIsMember ==
  \A h \in HouseholdIds :
    households[h].exists =>
      /\ users[households[h].owner_id].exists
      /\ users[households[h].owner_id].household_id = h

AuthenticatedOps == {"me", "logout", "update_me"}

\* C8: after a successful logout with access token T a request presenting T
\* to an authenticated endpoint is answered 401 (stated for the request that
\* follows the logout).
C8_LogoutInvalidates ==
  [][(/\ acct_out.op = "logout"
      /\ acct_out.status = 200
      /\ acct_out.bearer.kind = "access"
      /\ acct_out'.op \in AuthenticatedOps
      /\ acct_out'.bearer = acct_out.bearer)
     => acct_out'.status = 401]_vars

\* ---- C9 ----
\* signature valid, not expired, subject present, subject an active user
BearerGood ==
  /\ acct_out.bearer.signed
  /\ acct_out.bearer.exp >= today
  /\ acct_out.bearer.sub # Word("none")
  /\ acct_out.pre_active

\* C9: an authenticated endpoint runs for a user only when the bearer token
\* is validly signed, unexpired, carries a subject and the subject is an
\* existing active user; otherwise the answer is 401 and nothing runs. Once
\* a user is inactive, their tokens are rejected and login and refresh for
\* them are answered 401.
C9_CurrentUserResolution ==
  /\ acct_out.op \in AuthenticatedOps =>
       /\ BearerGood =>
            /\ acct_out.status # 401
            /\ StrUser(acct_out.caller) = acct_out.bearer.sub
       /\ ~BearerGood =>
            /\ acct_out.status = 401
            /\ acct_out.caller = None
            /\ ~acct_out.changed
  /\ (acct_out.op = "refresh" /\ ~acct_out.pre_active) =>
       acct_out.status = 401 /\ ~acct_out.changed
  /\ (acct_out.op = "login" /\ acct_out.user # None
       /\ ~acct_out.pre_active) =>
       acct_out.status = 401 /\ ~acct_out.changed

\* a token the server issued to a user is refused after the user was
\* deactivated
C9_Witness ==
  /\ acct_out.op \in AuthenticatedOps
  /\ acct_out.bearer \in tokens
  /\ acct_out.bearer.exp >= today
  /\ ~users[UuidOfUser(acct_out.bearer.sub)].is_active
  /\ acct_out.status = 401

\* ---- C10 ----
\* C10: a register request whose username or email is that of an existing
\* user is answered 400 and creates neither user nor household; any other
\* register request without a household id creates one user and one
\* household named "{username}'s Household", owned by and containing the
\* new user.
C10_RegisterOutcome ==
  acct_out.op = "register" =>
    /\ acct_out.matches >= 1 =>
         acct_out.status = 400 /\ ~acct_out.changed
    /\ (acct_out.matches = 0 /\ acct_out.pre_household = None) =>
         /\ acct_out.changed
         /\ users[acct_out.user].exists
         /\ users[acct_out.user].household_id = acct_out.household
         /\ households[acct_out.household].exists
         /\ households[acct_out.household].owner_id = acct_out.user
         /\ households[acct_out.household].name =
              [username |-> users[acct_out.user].username,
               text |-> "'s Household"]

\* ---- C11 ----
\* C11: the writes of one request are atomic: when a create-item request
\* ends in a fault (a 5xx answer, as when the audit write fails after the
\* item was written) the item is not persisted, and when it succeeds the
\* item is persisted.
C11_RequestAtomic ==
  inv_out.op = "create" =>
    /\ inv_out.status >= 500 => ~items[inv_out.item_id].exists
    /\ inv_out.status = 201 => items[inv_out.item_id].exists

\* ================================================================
\* Audit service: log_action and its redaction pass
\* ================================================================
\* A structured value: a string (s, with its length len), a mapping or a
\* sequence; kids holds a mapping's entries, key k and value v, or a
\* sequence's elements, which have the empty key.
MaxDepth == 2
LongLen == 1001

Str(s, len) == [t |-> "str", s |-> s, len |-> len, kids |-> <<>>]
Dict(entries) == [t |-> "dict", s |-> "", len |-> 0, kids |-> entries]
List(elems) ==
  [t |-> "list", s |-> "", len |-> 0,
   kids |-> [i \in DOMAIN elems |-> [k |-> <<>>, v |-> elems[i]]]]
NoValues == [t |-> "none", s |-> "", len |-> 0, kids |-> <<>>]

\* a key is written as the pieces of text it is made of
Lower(piece) ==
  CASE piece = "Password" -> "password"
    [] piece = "Token" -> "token"
    [] OTHER -> piece
KeyLower(key) == [i \in DOMAIN key |-> Lower(key[i])]

\* _sanitize_data, lines 100-103
sensitive_fields ==
  << <<"password">>, <<"password", "_", "hash">>, <<"token">>, <<"secret">>,
     <<"key">>, <<"auth", "_", "token">>, <<"refresh", "_", "token">>,
     <<"jwt">>, <<"credential">> >>

\* sensitive in key.lower()
Contains(text, word) ==
  \E i \in 1..Len(text) :
    /\ i + Len(word) - 1 <= Len(text)
    /\ SubSeq(text, i, i + Len(word) - 1) = word

IsSensitive(key) ==
  \E j \in DOMAIN sensitive_fields : Contains(KeyLower(key), sensitive_fields[j])

Redacted == Str("[REDACTED]", 10)

\* value[:1000] + "...[TRUNCATED]"
Truncated(value) == [value EXCEPT !.len = 1000 + 14]

\* isinstance(value, dict)
IsDictValue(value) == value.t = "dict"

\* _sanitize_data
RECURSIVE SanitizeData(_)
SanitizeData(data) ==
  IF data.kids = <<>> THEN Dict(<<>>)
  ELSE [data EXCEPT !.kids =
          [i \in DOMAIN data.kids |->
             LET key == data.kids[i].k
                 value == data.kids[i].v
             IN IF IsSensitive(key) THEN [k |-> key, v |-> Redacted]
                ELSE IF IsDictValue(value)
                  THEN [k |-> key, v |-> SanitizeData(value)]
                ELSE IF value.t = "str" /\ value.len > 1000
                  THEN [k |-> key, v |-> Truncated(value)]
                ELSE [k |-> key, v |-> value]]]

\* log_action, lines 60-64: a snapshot that is None or empty is kept as is
Snapshot(values) ==
  IF values.t = "none" \/ values.kids = <<>> THEN values
  ELSE SanitizeData(values)

\* log_action; db = None: the caller passes no session
LogAction(db, old_values, new_values) ==
  /\ IF db = None /\ AuditSession = None
     THEN /\ audit_out' = [op |-> "log_action", raised |-> TRUE]
          /\ UNCHANGED audit_logs
     ELSE /\ audit_logs' = Append(audit_logs,
                                  [old_values |-> Snapshot(old_values),
                                   new_values |-> Snapshot(new_values)])
          /\ audit_out' = [op |-> "log_action", raised |-> FALSE]
  /\ UNCHANGED nonAuditVars

\* the snapshots tried: a secret under plain and sensitive keys, directly,
\* in nested mappings and in mappings inside sequences
Secret == Str("hunter2", 7)
AuditKeys == {<<"name">>, <<"Password">>, <<"user", "_", "Token">>}

RECURSIVE ValuesUpTo(_)
ValuesUpTo(depth) ==
  IF depth = 0 THEN {Secret}
  ELSE LET below == ValuesUpTo(depth - 1)
       IN below
            \cup {Dict(<<[k |-> key, v |-> value]>>) :
                    key \in AuditKeys, value \in below}
            \cup {List(<<value>>) : value \in below}

Snapshots ==
  {NoValues}
    \cup {Dict(<<[k |-> key, v |-> value]>>) :
            key \in AuditKeys,
            value \in ValuesUpTo(MaxDepth) \cup {Str("essay", LongLen)}}

InitAudit ==
  /\ AcctEmpty
  /\ WsIdle
  /\ CacheIdle
  /\ InvEmpty
  /\ AuditIdle
  /\ MealIdle
  /\ RecipeIdle
  /\ ForecastIdle
  /\ GateIdle
  /\ LateIdle

\* one call of log_action per behaviour
NextAudit ==
  /\ audit_out = NoAuditOut
  /\ \E db \in {None, 1}, old_values \in Snapshots, new_values \in Snapshots :
       LogAction(db, old_values, new_values)

SpecAudit == InitAudit /\ [][NextAudit]_vars

\* ---- C12 ----
\* no sensitive key anywhere inside the value holds anything but the marker
RECURSIVE NoLeak(_)
NoLeak(value) ==
  \A i \in DOMAIN value.kids :
    /\ (value.t = "dict" /\ IsSensitive(value.kids[i].k)) =>
         value.kids[i].v = Redacted
    /\ NoLeak(value.kids[i].v)

\* C12: in every persisted audit record, in the old-values and the
\* new-values snapshot, every key whose lowercase form contains a sensitive
\* word holds [REDACTED], at every depth, in mappings nested in mappings and
\* in mappings nested in sequences.
C12_RedactionAtEveryDepth ==
  \A i \in DOMAIN audit_logs :
    NoLeak(audit_logs[i].old_values) /\ NoLeak(audit_logs[i].new_values)

\* ---- meal plans and their entries, requested by the members of two
\* households
InitMeal ==
  /\ users = WsUsers
  /\ households = WsHouseholds
  /\ sessions = <<>>
  /\ tokens = {}
  /\ today = 0
  /\ acct_out = NoAcctOut
  /\ WsIdle
  /\ CacheIdle
  /\ InvEmpty
  /\ AuditIdle
  /\ MealIdle
  /\ RecipeIdle
  /\ ForecastIdle
  /\ GateIdle
  /\ LateIdle

NextMeal ==
  \/ \E u \in UserIds, s \in Dates, e \in Dates, n \in 0..1 :
       CreateMealPlan(u, s, e, n)
  \/ \E u \in UserIds, p \in PlanIds, s \in Dates \cup {Unset},
        e \in Dates \cup {Unset} : UpdateMealPlan(u, p, s, e)
  \/ \E u \in UserIds, p \in PlanIds : DeleteMealPlan(u, p)
  \/ \E u \in UserIds, p \in PlanIds : AddMealPlanEntry(u, p)
  \/ \E u \in UserIds, p \in PlanIds : GetMealPlanEntries(u, p)
  \/ \E u \in UserIds, p \in PlanIds, e \in EntryIds :
       DeleteMealPlanEntry(u, p, e)

SpecMeal == InitMeal /\ [][NextMeal]_vars

\* ---- C13 ----
\* C13: after any sequence of meal-plan create and update requests every
\* persisted meal plan has end_date >= start_date; a create with
\* start_date > end_date answers 400 and persists no plan and no entry.
C13_EndNotBeforeStart ==
  /\ \A p \in PlanIds :
       meal_plans[p].exists => meal_plans[p].end_date >= meal_plans[p].start_date
  /\ (meal_out.op = "create" /\ meal_out.inverted) =>
       meal_out.status = 400 /\ ~meal_out.changed

\* ---- C16 ----
\* C16: listing, adding or deleting the entries of a meal plan discloses or
\* changes entries only when the caller is the plan's creator or, for
\* listing and adding, a member of the plan's household.
C16_NoCrossHouseholdEntries ==
  (/\ meal_out.op \in {"list_entries", "add_entry", "delete_entry"}
   /\ meal_out.entries # {} \/ meal_out.changed)
  => \/ meal_out.creator
     \/ meal_out.op # "delete_entry" /\ meal_out.member

\* ---- recipes read and edited by the members of two households, one of
\* whom can leave their household
InitRecipe ==
  /\ users = WsUsers
  /\ households = WsHouseholds
  /\ sessions = <<>>
  /\ tokens = {}
  /\ today = 0
  /\ acct_out = NoAcctOut
  /\ WsIdle
  /\ CacheIdle
  /\ InvEmpty
  /\ RestIdle

NextRecipe ==
  \/ \E u \in UserIds, p \in BOOLEAN : CreateRecipe(u, p, <<>>, <<>>)
  \/ \E u \in UserIds, r \in RecipeIds : GetRecipe(u, r)
  \/ \E u \in UserIds : GetRecipes(u)
  \/ \E u \in UserIds, r \in RecipeIds, p \in BOOLEAN :
       UpdateRecipe(u, r, Given(p), Absent, Absent)
  \/ \E u \in UserIds, r \in RecipeIds : DeleteRecipe(u, r)
  \/ \E u \in UserIds : LeaveHousehold(u)

SpecRecipe == InitRecipe /\ [][NextRecipe]_vars

\* ---- recipes whose ingredient and step lists are edited
NextRecipeEdit ==
  \/ \E u \in UserIds, i \in ChildLists, s \in ChildLists :
       CreateRecipe(u, FALSE, i, s)
  \/ \E u \in UserIds, r \in RecipeIds,
        i \in {Absent} \cup {Given(l) : l \in ChildLists},
        s \in {Absent} \cup {Given(l) : l \in ChildLists} :
       UpdateRecipe(u, r, Absent, i, s)

SpecRecipeEdit == InitRecipe /\ [][NextRecipeEdit]_vars

\* ---- reviews of one public recipe, added by requests that can overlap
InitReview ==
  /\ users = WsUsers
  /\ households = WsHouseholds
  /\ sessions = <<>>
  /\ tokens = {}
  /\ today = 0
  /\ acct_out = NoAcctOut
  /\ WsIdle
  /\ CacheIdle
  /\ InvEmpty
  /\ AuditIdle
  /\ MealIdle
  /\ recipes = [r \in RecipeIds |->
                  IF r = 1
                  THEN [NoRecipe EXCEPT !.exists = TRUE, !.used = TRUE,
                          !.created_by = 1, !.household_id = 1,
                          !.is_public = TRUE]
                  ELSE NoRecipe]
  /\ recipe_reviews = {}
  /\ review_tx = [t \in Txs |-> NoTx]
  /\ recipe_out = NoRecipeOut
  /\ ForecastIdle
  /\ GateIdle
  /\ LateIdle

NextReview ==
  \/ \E t \in Txs, u \in UserIds, r \in RecipeIds, rating \in ReviewRatings :
       ReviewSelect(t, u, r, rating)
  \/ \E t \in Txs : ReviewFlush(t)
  \/ \E t \in Txs : ReviewCommit(t)

SpecReview == InitReview /\ [][NextReview]_vars

\* ---- C14 ----
\* C14: once every add-review request has completed, overlapping ones
\* included, each recipe's review_count is the number of its persisted
\* reviews and its avg_rating is the mean of their ratings.
C14_ReviewAggregates ==
  (\A t \in Txs : review_tx[t].st = "idle") =>
    \A r \in RecipeIds :
      recipes[r].exists =>
        LET rows == ReviewsOf(recipe_reviews, r) IN
        /\ recipes[r].review_count = Cardinality(rows)
        /\ rows # {} =>
             recipes[r].avg_rating = AvgOf(SumRatings(rows), Cardinality(rows))

C17_ChildrenReplaced ==
  [][\A u \in UserIds, r \in RecipeIds,
        i \in {Absent} \cup {Given(l) : l \in ChildLists},
        s \in {Absent} \cup {Given(l) : l \in ChildLists} :
       (IsRecipeCreator(u, r) /\ UpdateRecipe(u, r, Absent, i, s)) =>
         /\ recipes'[r].ingredients =
              IF i.given THEN i.value ELSE recipes[r].ingredients
         /\ recipes'[r].steps =
              IF s.given THEN s.value ELSE recipes[r].steps]_vars

\* ---- the heuristic waste forecast over every small pantry
RECURSIVE SeqsUpTo(_, _)
SeqsUpTo(S, n) ==
  IF n = 0 THEN {<<>>}
  ELSE LET shorter == SeqsUpTo(S, n - 1)
       IN shorter \cup {Append(l, x) : l \in shorter, x \in S}

InitForecast ==
  /\ AcctEmpty
  /\ WsIdle
  /\ CacheIdle
  /\ InvEmpty
  /\ AuditIdle
  /\ MealIdle
  /\ RecipeIdle
  /\ pantry \in SeqsUpTo(PantryRows, MaxPantry)
  /\ forecast_out = NoForecast
  /\ GateIdle
  /\ LateIdle

NextForecast ==
  \E h \in 1..2, days_ahead \in {3, HorizonDays} : ForecastWaste(h, days_ahead)

SpecForecast == InitForecast /\ [][NextForecast]_vars

\* ---- C18 ----
\* C18: with no AI service the forecast counts every expiring item of the
\* household (expiration present and within the horizon, quantity > 0),
\* priced or not, in total_items_at_risk, sums the value of the priced ones
\* in estimated_waste_value, and has recommendations exactly when at least
\* one item is at risk.
C18_HeuristicForecast ==
  forecast_out.op = "forecast" =>
    LET at_risk == GetExpiringItems(forecast_out.household_id,
                                    forecast_out.days_ahead)
    IN /\ forecast_out.total_items_at_risk = Len(at_risk)
       /\ forecast_out.estimated_waste_value =
            TotalValue(SelectSeq(at_risk, IsPriced))
       /\ forecast_out.recommendations > 0 <=> at_risk # <<>>

\* ---- C19 ----
\* C19: a committed consumption log is present and unchanged in every later
\* state, also after the item it refers to has been deleted.
C19_LogsPermanent ==
  [][\A l \in logs : l \in logs']_vars

\* ---- the WebSocket gateway: sockets opened with issued, tampered, expired
\* and absent tokens, by users who can leave their household or be
\* deactivated
InitGate ==
  /\ users = WsUsers
  /\ households = WsHouseholds
  /\ sessions = <<>>
  /\ today = 0
  /\ tokens = {CreateAccessToken(u, AccessLifetimeDays) : u \in 1..3}
  /\ acct_out = NoAcctOut
  /\ WsIdle
  /\ CacheIdle
  /\ InvEmpty
  /\ RestIdle

\* the sockets opened in this specification
GateSockets == 1..MaxGateSockets

NextGate ==
  \/ \E s \in GateSockets, t \in Presentable : WebsocketEndpoint(s, t)
  \/ \E s \in GateSockets : ClientDrop(s)
  \/ \E s \in GateSockets : WsDisconnect(s)
  \/ \E u \in UserIds : LeaveHousehold(u)
  \/ \E t \in Presentable : UpdateCurrentUser(t, FALSE)
  \/ Days

SpecGate == InitGate /\ [][NextGate]_vars

\* ---- C20 ----
\* C20: a socket is registered only when its token verified, the subject
\* named an existing active user and that user had a household, and then
\* under exactly that household; otherwise it is closed with code 1008, is
\* not registered and gets no welcome.
C20_RegisterAfterVerification ==
  ws_out.op = "connect" =>
    LET ok == /\ ws_out.verified
              /\ ws_out.user # None
              /\ ws_out.household # None
    IN /\ ws_out.registered # {} =>
            ok /\ ws_out.registered = {ws_out.household}
       /\ ~ok => /\ ws_out.code = 1008
                 /\ ws_out.registered = {}
                 /\ ~ws_out.welcome
                 /\ \A h \in DOMAIN active_connections :
                      \A i \in DOMAIN active_connections[h] :
                        active_connections[h][i] # ws_out.socket

\* a socket opened with the valid token of a user who has left the
\* household has been closed with 1008
C20_Witness ==
  /\ ws_out.op = "connect"
  /\ ws_out.verified
  /\ ws_out.user # None
  /\ ws_out.household = None
  /\ ws_out.code = 1008
  /\ \E s \in Sockets : sock[s].st = "open"

\* ---- household ownership under overlapping create-household requests
InitOwn == InitHouse

NextOwn ==
  \/ \E n \in 1..MaxNames, h \in 1..MaxNames \cup {None} : Register(n, n, h)
  \/ \E t \in Txs, u \in UserIds :
       CreateHouseholdCheck(t, u, [username |-> None, text |-> "Home"])
  \/ \E t \in Txs : CreateHouseholdCommit(t)

SpecOwn == InitOwn /\ [][NextOwn]_vars

\* C21: a user never owns more than one household, and a create-household
\* request of a caller who already owns one answers 400 and creates
\* nothing, whatever the order and the overlap of register and
\* create-household requests.
C21_SingleOwnership ==
  /\ \A u \in UserIds : Cardinality(OwnedHouseholds(u)) <= 1
  /\ (acct_out.op = "create_household" /\ acct_out.pre_owner)
       => (acct_out.status = 400 /\ ~acct_out.changed)

\* ---- AI endpoints and premium-gated endpoints
InitAI == InitWS

NextAI ==
  \/ \E u \in UserIds, enabled \in BOOLEAN, reply \in Replies :
       GenerateRecipe(u, enabled, reply)
  \/ \E u \in UserIds, enabled \in BOOLEAN, reply \in Replies :
       GenerateMealPlan(u, enabled, reply)
  \/ \E u \in UserIds : ImportRecipeFromUrl(u)
  \/ \E u \in UserIds, value \in BOOLEAN : UpdateCurrentUserPremium(u, value)

SpecAI == InitAI /\ [][NextAI]_vars

\* C22: when the AI service returns no result, generate-recipe and
\* generate-meal-plan answer 400 and not a 5xx, and generate-meal-plan
\* answers 403 to a non-premium caller before any generation is attempted.
C22_NoResultIs400 ==
  /\ (ai_out.op \in {"generate_recipe", "generate_meal_plan"} /\
      ai_out.result = "none") => ai_out.status = 400
  /\ (ai_out.op = "generate_meal_plan" /\ ~ai_out.premium)
       => (ai_out.status = 403 /\ ai_out.result = "unattempted")

\* C29: every account starts without the premium flag and only the account
\* holders themselves send requests; no premium-gated endpoint (recipe URL
\* import, AI meal-plan generation) then ever answers with a success.
C29_PremiumGate ==
  ai_out.op \in {"import_recipe_from_url", "generate_meal_plan"}
    => ai_out.status # 200

\* C23: every household key of the registry maps to a non-empty list; no
\* socket whose handler has ended is listed; when a broadcast completes, the
\* sockets whose send failed in it are not listed, and a socket that has been
\* taken off the registry is never listed again; disconnecting a socket that
\* is no longer listed leaves the registry unchanged.
C23_RegistryInvariant ==
  /\ [](/\ \A h \in DOMAIN active_connections : active_connections[h] # <<>>
        /\ \A s \in Sockets :
             sock[s].st = "closed"
               => RegisteredUnder(active_connections, s) = {})
  /\ [][/\ \A s \in Sockets :
             (bcast[s].active /\ ~bcast'[s].active)
               => \A k \in 1..Len(bcast[s].disconnected) :
                    RegisteredUnder(active_connections',
                                    bcast[s].disconnected[k]) = {}
        /\ \A s \in Sockets :
             (sock[s].st # "unused" /\
              RegisteredUnder(active_connections, s) = {})
               => RegisteredUnder(active_connections', s) = {}
        /\ \A s \in Sockets :
             (sock[s].st = "open" /\ sock'[s].st = "closed" /\
              RegisteredUnder(active_connections, s) = {})
               => active_connections' = active_connections]_vars

\* C23 witness: a socket whose send failed has been pruned by a completed
\* broadcast while its handler is still to end, the handler of another socket
\* has ended, and a third socket is still listed
C23_Witness ==
  /\ \E s \in Sockets : /\ sock[s].st = "open" /\ ~sock[s].alive
                        /\ RegisteredUnder(active_connections, s) = {}
  /\ \E s \in Sockets : sock[s].st = "closed"
  /\ DOMAIN active_connections # {}
  /\ \A s \in Sockets : ~bcast[s].active

\* ---- shutdown of the notification service; the server accepts no new
\* socket once cleanup has been called
InitCleanup == InitWS

NextCleanup ==
  \/ cleanup_run.pc = "idle" /\ \E s \in Sockets, u \in UserIds : WsConnect(s, u)
  \/ \E s \in Sockets : ClientDrop(s)
  \/ \E s \in Sockets : WsDisconnect(s)
  \/ \E u \in UserIds, token \in PushTokens : RegisterPushToken(u, token)
  \/ \E u \in UserIds, token \in PushTokens : UnregisterPushToken(u, token)
  \/ CleanupStart
  \/ CleanupResume

SpecCleanup == InitCleanup /\ [][NextCleanup]_vars

\* C24: once cleanup has returned, the connection registry and the
\* push-token registry are empty and a close has been attempted on every
\* socket that was listed when cleanup was called.
C24_CleanupClearsAll ==
  cleanup_run.pc = "returned"
    => /\ active_connections = <<>>
       /\ push_tokens = <<>>
       /\ cleanup_run.tracked \subseteq cleanup_run.attempted

\* ---- application lifespan, for every setting of the environment and of
\* the AI feature switch; requests are served between startup and shutdown,
\* each with an AI service of its own (Depends(AIService))
InitLife ==
  /\ users = WsUsers
  /\ households = WsHouseholds
  /\ sessions = <<>>
  /\ tokens = {}
  /\ today = 0
  /\ acct_out = NoAcctOut
  /\ WsIdle
  /\ CacheIdle
  /\ InvEmpty
  /\ AuditIdle
  /\ MealIdle
  /\ RecipeIdle
  /\ ForecastIdle
  /\ GateIdle
  /\ OwnIdle
  /\ AiIdle
  /\ CleanupIdle
  /\ ConnIdle
  /\ \E environment \in Environments, enable_ai \in BOOLEAN :
       lifespan_run = [NoLifespan EXCEPT !.environment = environment,
                         !.enable_ai = enable_ai]

NextLife ==
  \/ \E reachable \in BOOLEAN : LifespanInitDb(reachable)
  \/ \E models_listed \in BOOLEAN : LifespanInitAi(models_listed)
  \/ /\ lifespan_run.pc = "serving"
     /\ \E u \in UserIds, reply \in Replies :
          GenerateRecipe(u, lifespan_run.enable_ai, reply)
  \/ /\ lifespan_run.pc = "serving"
     /\ \E u \in UserIds, reply \in Replies :
          GenerateMealPlan(u, lifespan_run.enable_ai, reply)
  \/ /\ lifespan_run.pc = "serving"
     /\ \E u \in UserIds, value \in BOOLEAN :
          UpdateCurrentUserPremium(u, value)
  \/ LifespanCloseDb
  \/ LifespanCleanupAi

SpecLife == InitLife /\ [][NextLife]_vars

\* C25: the AI service's resources are released while the persistence
\* connections are still open, and the AI service is constructed only after
\* the persistence connection has been established.
C25_LifespanOrder ==
  /\ lifespan_run.ai_service = "released"
       => lifespan_run.engine_at_release = "connected"
  /\ lifespan_run.ai_service # "absent"
       => lifespan_run.engine_at_construct = "connected"

\* ---- concurrent connect calls on the cache service
InitConnect == InitWS

NextConnect ==
  \/ \E c \in Callers : ConnectEnter(c)
  \/ \E c \in Callers : ConnectWait(c)
  \/ \E c \in Callers, ping_err \in BOOLEAN : ConnectPing(c, ping_err)
  \/ \E c \in Callers : ConnectDone(c)

SpecConnect == InitConnect /\ [][NextConnect]_vars

\* C26: a client is constructed only while the service has none, so that
\* never more than one constructed client is in use and never two callers
\* are constructing; a caller that has returned normally finds a client
\* present; a failed attempt leaves the client absent and the lock free, so
\* that a later call constructs again.
C26_ConnectOnce ==
  /\ [](/\ clients.constructed - clients.dropped <= 1
        /\ (redis_client = "none") <=> (clients.constructed = clients.dropped)
        /\ Cardinality({c \in Callers : connect_pc[c] = "ping"}) <= 1
        /\ \A c \in Callers :
             connect_pc[c] = "returned" => redis_client # "none")
  /\ [][/\ clients'.constructed # clients.constructed
             => redis_client = "none"
        /\ \A c \in Callers :
             (connect_pc[c] = "ping" /\ connect_pc'[c] = "raised")
               => (redis_client' = "none" /\ lock' = None)]_vars

\* C26 witness: after a failed attempt a second client has been constructed
\* by a later call, while another caller has returned normally
C26_Witness ==
  /\ clients.constructed = 2 /\ clients.dropped = 1
  /\ \E c \in Callers : connect_pc[c] = "returned"
  /\ \E c \in Callers : connect_pc[c] = "raised"

\* C27: when a household broadcast returns, every socket that was listed
\* under the household from before the broadcast began (a socket older than
\* the sender's, the sender's being listed when it began) until it returned,
\* and that is not passed over as the sender's, has been handed the envelope
\* (send_json was called on it, whether or not the send went through).
C27_EachSocketOnce ==
  [][\A s \in Sockets :
       (bcast[s].active /\ ~bcast'[s].active)
         => \A t \in Registered(active_connections, bcast[s].household_id) :
              (t < s /\ ~Excluded(t, bcast[s].exclude_user_id))
                => \/ t \in bcast[s].sentTo
                   \/ \E k \in 1..Len(bcast[s].disconnected) :
                        bcast[s].disconnected[k] = t]_vars

\* ---- household membership when no invitation is ever issued: every
\* request but invite_to_household
InitJoin == InitHouse

NextJoin ==
  \/ \E n \in 1..MaxNames, h \in 1..MaxNames \cup {None} : Register(n, n, h)
  \/ \E u \in UserIds, parts \in JoinTokens : JoinHousehold(u, parts)
  \/ \E u \in UserIds : LeaveHousehold(u)

SpecJoin == InitJoin /\ [][NextJoin]_vars

\* C28: a user is a member of a household only as its owner or after its
\* owner made an invite request for that user.  Where no invite request is
\* made at all, every member of a household is therefore its owner.
C28_MembersWereInvited ==
  \A u \in UserIds :
    (users[u].exists /\ users[u].household_id # None)
      => /\ households[users[u].household_id].exists
         /\ households[users[u].household_id].owner_id = u

\* ---- the gateway while members leave their household
InitLeave == InitWS

NextLeave ==
  \/ NextWS
  \/ \E u \in UserIds : LeaveHousehold(u)

SpecLeave == InitLeave /\ [][NextLeave]_vars

\* C30: whenever an update envelope is handed to a socket, the user of that
\* socket is at that moment a member of the household the envelope is
\* broadcast in, and so is the user of the socket whose message caused it.
C30_MembersOnlyChannel ==
  [][(bcast' # bcast /\ last_sent'.type \in UpdateEvents /\ last_sent'.ok)
       => /\ users'[sock'[last_sent'.to].user_id].household_id
               = last_sent'.to_household
          /\ users'[sock'[last_sent'.from].user_id].household_id
               = last_sent'.from_household]_vars

====
